---- MODULE Spec2Model ----
(***************************************************************************)
(* A model of the database abstraction core of DatRi:                      *)
(*   - the SELECT query builder      (internal/database/query.go)          *)
(*   - the error translators         (postgres/driver.go, mysql/driver.go) *)
(*   - the connection facade, its cursors and the scan helpers             *)
(* Text is modelled as a sequence of one-character strings, so that        *)
(* quoting, upper-casing and placeholder numbering are computed the way    *)
(* the code computes them.                                                 *)
(***************************************************************************)
EXTENDS Integers, Sequences, FiniteSets, TLC

VARIABLES
    b,          \* the SelectBuilder under construction
    ret,        \* what the most recent builder call returned
    mapIn,      \* the error most recently handed to a driver's mapError
    mapOut,     \* which backend's mapError ran, and what it returned
    backend,    \* which Driver the caller holds: "postgres" or "mysql"
    ctx,        \* the caller's context: "live", "DeadlineExceeded" or "Canceled"
    cur,        \* the Rows cursor handed out by Query
    row,        \* the Row handed out by QueryRow
    fret,       \* what the most recent facade / cursor / helper call returned
    catalog,    \* the base tables of the backend's configured namespace
    pool,       \* the connection pool New built, and the cursors the Driver holds open
    hist,       \* the fluent calls made on the builder since Select, where a history is kept
    built,      \* what the Build calls made since the last fluent call saw and returned
    drv,        \* the Driver struct several callers share: its fields
    thr,        \* the callers of the shared Driver: where each is in its call, and what it got
    globalLevel, \* zerolog's global level
    loggers,    \* the Loggers created so far, each with the level it was configured with
    logged,     \* the most recent logging call and whether it wrote to the output
    db,         \* the connect-style DB: its variant and its pool field
    cfg         \* the Config handed to mysql.New

bvars == <<b, ret>>

mvars == <<mapIn, mapOut>>

fvars == <<backend, ctx, cur, row, fret, catalog, pool>>

hvars == <<hist, built>>

cvars == <<drv, thr>>

lvars == <<globalLevel, loggers, logged>>

\* the parts modelled on their own, beside the builder's history
ovars == <<drv, thr, globalLevel, loggers, logged, db, cfg>>

xvars == <<hist, built, drv, thr, globalLevel, loggers, logged, db, cfg>>

vars == <<b, ret, mapIn, mapOut, backend, ctx, cur, row, fret, catalog, pool,
          hist, built, drv, thr, globalLevel, loggers, logged, db, cfg>>

(***************************************************************************)
(* Text helpers (package strings / fmt).                                   *)
(***************************************************************************)
DQ == "\""

Lower == <<"a","b","c","d","e","f","g","h","i","j","k","l","m",
           "n","o","p","q","r","s","t","u","v","w","x","y","z">>

Upper == <<"A","B","C","D","E","F","G","H","I","J","K","L","M",
           "N","O","P","Q","R","S","T","U","V","W","X","Y","Z">>

Digits == <<"0","1","2","3","4","5","6","7","8","9">>

\* unicode.ToUpper restricted to ASCII
UpperChar(c) ==
    IF \E i \in 1..Len(Lower) : Lower[i] = c
    THEN Upper[CHOOSE i \in 1..Len(Lower) : Lower[i] = c]
    ELSE c

RECURSIVE ToUpper(_)
\* strings.ToUpper
ToUpper(s) ==
    IF s = <<>> THEN <<>> ELSE <<UpperChar(Head(s))>> \o ToUpper(Tail(s))

RECURSIVE ReplaceAll(_, _, _)
\* strings.ReplaceAll for a one-character pattern
ReplaceAll(s, old, new) ==
    IF s = <<>> THEN <<>>
    ELSE (IF Head(s) = old THEN new ELSE <<Head(s)>>) \o ReplaceAll(Tail(s), old, new)

RECURSIVE Join(_, _)
\* strings.Join
Join(parts, sep) ==
    IF parts = <<>> THEN <<>>
    ELSE IF Len(parts) = 1 THEN parts[1]
    ELSE parts[1] \o sep \o Join(Tail(parts), sep)

RECURSIVE Itoa(_)
\* fmt's %d for a non-negative int
Itoa(n) ==
    IF n < 10 THEN <<Digits[n + 1]>>
    ELSE Itoa(n \div 10) \o <<Digits[(n % 10) + 1]>>

(***************************************************************************)
(* Errors.  An error value is its Unwrap chain, outermost node first; the  *)
(* nil error is the empty chain.                                           *)
(***************************************************************************)
NilErr == <<>>

Node(t, kind, code, num) == [t |-> t, kind |-> kind, code |-> code, num |-> num]

\* *database.DBError
DBErrorNode(kind) == Node("database.DBError", kind, <<>>, 0)

\* *errs.Error
ErrsErrorNode(kind) == Node("errs.Error", kind, <<>>, 0)

\* database.errInvalidInput: a DBError with no cause
errInvalidInput == <<DBErrorNode("InvalidInput")>>

\* errs.Wrap(kind, msg, cause)
Wrap(kind, cause) == <<ErrsErrorNode(kind)>> \o cause

\* &database.DBError{Kind: kind, Message: msg, Cause: cause}
WrapDB(kind, cause) == <<DBErrorNode(kind)>> \o cause

\* the sentinels and native error types the drivers look for
DeadlineExceeded == Node("context.DeadlineExceeded", "", <<>>, 0)

Canceled == Node("context.Canceled", "", <<>>, 0)

PgxErrNoRows == Node("pgx.ErrNoRows", "", <<>>, 0)

SqlErrNoRows == Node("sql.ErrNoRows", "", <<>>, 0)

PgError(code) == Node("pgconn.PgError", "", code, 0)

MySQLError(number) == Node("mysql.MySQLError", "", <<>>, number)

\* any other error: a net.OpError, a TLS failure, a fmt.Errorf wrapper
OtherErr == Node("other", "", <<>>, 0)

\* errors.Is(err, target)
ErrorsIs(err, target) == \E i \in 1..Len(err) : err[i] = target

\* errors.As(err, &x) for a target of type t: whether some node has that type
ErrorsAs(err, t) == \E i \in 1..Len(err) : err[i].t = t

\* the node errors.As binds: the first of that type
AsTarget(err, t) == err[CHOOSE i \in 1..Len(err) : err[i].t = t /\ \A j \in 1..(i - 1) : err[j].t # t]

\* context deadline exceeded or cancellation anywhere in the chain
IsContextErr(err) == ErrorsIs(err, DeadlineExceeded) \/ ErrorsIs(err, Canceled)

(***************************************************************************)
(* The values the variables hold before anything was called; each          *)
(* specification starts the parts it does not exercise in these.           *)
(***************************************************************************)
NoRet == [call |-> "none", sql |-> <<>>, args |-> <<>>, err |-> NilErr]

BuilderIdle ==
    /\ b = [table |-> <<>>, dialect |-> "DialectPostgres", columns |-> <<>>, where |-> <<>>,
            orderBy |-> <<>>, limit |-> <<>>, offset |-> <<>>]
    /\ ret = NoRet

NotMapped == [backend |-> "none", err |-> NilErr]

MapIdle == mapIn = NilErr /\ mapOut = NotMapped

\* a cursor: the rows Next has still to deliver, the rows it delivered (pos), whether
\* it stands on a row, the error Err reports, and the column names of the result set
NoCursor == [state |-> "none", left |-> 0, onRow |-> FALSE, err |-> NilErr, pos |-> 0,
             columns |-> <<>>]

NoRow == [state |-> "none", present |-> FALSE, err |-> NilErr]

FRet(op, c, err) ==
    [op |-> op, ctx |-> c, err |-> err, cursor |-> FALSE, flag |-> FALSE, mid |-> FALSE,
     list |-> <<>>, nilList |-> TRUE, schema |-> <<>>, hasSchema |-> FALSE,
     arg |-> <<>>, calls |-> <<>>]

NoFRet == FRet("none", "live", NilErr)

\* no pool was built yet
NoPool == [state |-> "none", cursors |-> 0]

FacadeIdle ==
    /\ backend = "postgres" /\ ctx = "live" /\ cur = NoCursor /\ row = NoRow /\ fret = NoFRet
    /\ catalog = <<>> /\ pool = NoPool

\* no history of the fluent calls is kept
NoHistory == [kept |-> FALSE, calls |-> <<>>]

HistoryIdle == hist = NoHistory /\ built = <<>>

\* no Driver is shared yet
NoDriver == [pool |-> "nil"]

SharingIdle == drv = NoDriver /\ thr = <<>>

\* zerolog.InfoLevel, the level the package's init leaves as the global one
InfoLevel == 1

NoLog == [logger |-> 0, level |-> 0, global |-> 0, written |-> FALSE]

LoggerIdle == globalLevel = InfoLevel /\ loggers = <<>> /\ logged = NoLog

NoDB == [variant |-> "none", pool |-> "nil"]

NoConfig == [connectTimeout |-> 0]

OthersIdle == SharingIdle /\ LoggerIdle /\ db = NoDB /\ cfg = NoConfig

ExtraIdle == HistoryIdle /\ OthersIdle

(***************************************************************************)
(* Query builder.                                                          *)
(***************************************************************************)
\* the allow-list of comparison operators
validOps == {
    <<"=">>, <<"!", "=">>, <<"<", ">">>, <<"<">>, <<">">>, <<"<", "=">>, <<">", "=">>,
    <<"L","I","K","E">>, <<"I","L","I","K","E">> }

Dialects == {"DialectPostgres", "DialectMySQL"}

Asc == FALSE

Desc == TRUE

\* quoting without escaping
quoteIdent_NoEscape(name) == <<DQ>> \o name \o <<DQ>>

\* quoteIdent: wrap in double quotes, doubling embedded double quotes
quoteIdent(name) == <<DQ>> \o ReplaceAll(name, DQ, <<DQ, DQ>>) \o <<DQ>>

\* SelectBuilder.placeholder
placeholder(dialect, idx) ==
    IF dialect = "DialectMySQL" THEN <<"?">> ELSE <<"$">> \o Itoa(idx)

\* Select: a new builder; nil pointers and nil slices are empty sequences
Select(table, d) ==
    [table |-> table, dialect |-> d, columns |-> <<>>, where |-> <<>>,
     orderBy |-> <<>>, limit |-> <<>>, offset |-> <<>>]

TxtSelect == <<"S","E","L","E","C","T"," ">>

TxtStar == <<"*">>

TxtFrom == <<" ","F","R","O","M"," ">>

TxtWhere == <<" ","W","H","E","R","E"," ">>

TxtAnd == <<" ","A","N","D"," ">>

TxtOrderBy == <<" ","O","R","D","E","R"," ","B","Y"," ">>

TxtAsc == <<"A","S","C">>

TxtDesc == <<"D","E","S","C">>

TxtLimit == <<" ","L","I","M","I","T"," ">>

TxtOffset == <<" ","O","F","F","S","E","T"," ">>

TxtComma == <<",", " ">>

\* Build, column list: "*" or the quoted columns joined by ", "
columnList(columns) ==
    IF Len(columns) > 0
    THEN Join([i \in 1..Len(columns) |-> quoteIdent(columns[i])], TxtComma)
    ELSE TxtStar

\* strings.TrimSpace restricted to blanks
TrimSpace(s) ==
    LET nonBlank == {i \in 1..Len(s) : s[i] # " "}
    IN  IF nonBlank = {} THEN <<>>
        ELSE SubSeq(s, CHOOSE i \in nonBlank : \A j \in nonBlank : i <= j,
                       CHOOSE i \in nonBlank : \A j \in nonBlank : i >= j)

\* the operator trimmed before the test
opAllowed_Trimmed(op) == ToUpper(TrimSpace(op)) \in validOps

\* validation by prefix instead of by equality
opAllowed_ByPrefix(op) ==
    \E v \in validOps : Len(v) <= Len(op) /\ SubSeq(ToUpper(op), 1, Len(v)) = v

\* Build, WHERE loop: the operator test after upper-casing
opAllowed(op) == ToUpper(op) \in validOps

\* the value written into the text instead of a placeholder
wherePart_Inlined(w, dialect, argIdx) ==
    quoteIdent(w.column) \o <<" ">> \o ToUpper(w.op) \o <<" ">> \o Itoa(w.value)

\* Build, WHERE loop: one "col OP placeholder" part
wherePart(w, dialect, argIdx) ==
    quoteIdent(w.column) \o <<" ">> \o ToUpper(w.op) \o <<" ">> \o placeholder(dialect, argIdx)

RECURSIVE whereLoop(_, _, _)
\* Build, WHERE loop over b.where from argIdx on: stops at the first rejected
\* operator, otherwise collects the parts and the values
whereLoop(where, dialect, argIdx) ==
    IF where = <<>> THEN [bad |-> FALSE, parts |-> <<>>, args |-> <<>>]
    ELSE IF ~opAllowed(Head(where).op) THEN [bad |-> TRUE, parts |-> <<>>, args |-> <<>>]
    ELSE LET rest == whereLoop(Tail(where), dialect, argIdx + 1)
         IN  IF rest.bad THEN rest
             ELSE [bad |-> FALSE,
                   parts |-> <<wherePart(Head(where), dialect, argIdx)>> \o rest.parts,
                   args |-> <<Head(where).value>> \o rest.args]

\* every sort field written ascending
orderPart_DirectionDropped(o) == quoteIdent(o.column) \o <<" ">> \o TxtAsc

\* Build, ORDER BY: one "col DIR" part
orderPart(o) == quoteIdent(o.column) \o <<" ">> \o (IF o.dir = Desc THEN TxtDesc ELSE TxtAsc)

\* Build, ORDER BY clause
orderClauseText(orderBy) ==
    IF Len(orderBy) > 0
    THEN TxtOrderBy \o Join([i \in 1..Len(orderBy) |-> orderPart(orderBy[i])], TxtComma)
    ELSE <<>>

\* argIdx not advanced after LIMIT
limitOffsetText_SameIndex(sb, argIdx) ==
    (IF sb.limit # <<>> THEN TxtLimit \o placeholder(sb.dialect, argIdx) ELSE <<>>)
    \o (IF sb.offset # <<>> THEN TxtOffset \o placeholder(sb.dialect, argIdx) ELSE <<>>)

\* Build, LIMIT and OFFSET: numbered after the WHERE arguments
limitOffsetText(sb, argIdx) ==
    LET lim == IF sb.limit # <<>> THEN TxtLimit \o placeholder(sb.dialect, argIdx) ELSE <<>>
        idx2 == IF sb.limit # <<>> THEN argIdx + 1 ELSE argIdx
        off == IF sb.offset # <<>> THEN TxtOffset \o placeholder(sb.dialect, idx2) ELSE <<>>
    IN  lim \o off

\* SelectBuilder.Build: (sql, args, err)
Build(sb) ==
    LET w == whereLoop(sb.where, sb.dialect, 1)
        whereText == IF Len(sb.where) > 0 THEN TxtWhere \o Join(w.parts, TxtAnd) ELSE <<>>
    IN  IF w.bad
        THEN [sql |-> <<>>, args |-> <<>>, err |-> errInvalidInput]
        ELSE [sql |-> TxtSelect \o columnList(sb.columns) \o TxtFrom \o quoteIdent(sb.table)
                      \o whereText \o orderClauseText(sb.orderBy)
                      \o limitOffsetText(sb, Len(sb.where) + 1),
              args |-> w.args \o sb.limit \o sb.offset,
              err |-> NilErr]

(***************************************************************************)
(* Inputs of the builder calls.                                            *)
(***************************************************************************)
MaxSize == 3

TableNames == { <<"t">>, <<"x", DQ, " ", "y">> }

ColumnLists == { <<>>, << <<"a">> >>, << <<"a">>, <<DQ, "o", "r", DQ>> >> }

OpDrop == <<";"," ","D","R","O","P"," ","T","A","B","L","E"," ","t">>

\* the (column, operator, value) triples passed to Where
WhereInputs == {
    [column |-> <<"a">>, op |-> <<"=">>, value |-> 1],
    [column |-> <<"a">>, op |-> <<"l","i","k","e">>, value |-> 7],
    [column |-> <<DQ, "o", "r", DQ>>, op |-> <<">", "=">>, value |-> 7],
    [column |-> <<"a">>, op |-> OpDrop, value |-> 1],
    [column |-> <<DQ, "o", "r", DQ>>, op |-> <<"=", "=">>, value |-> 7] }

\* the (column, direction) pairs passed to OrderBy
OrderInputs == {
    [column |-> <<"a">>, dir |-> FALSE],
    [column |-> <<DQ, "o", "r", DQ>>, dir |-> TRUE] }

WhereValues == {1, 7}

LimitValues == {5, 2}

OffsetValues == {0, 3}

\* how much has been put into the builder; caps the accumulating calls
Size(sb) ==
    Len(sb.where) + Len(sb.orderBy) + (IF sb.columns # <<>> THEN 1 ELSE 0)
    + Len(sb.limit) + Len(sb.offset)

BInit ==
    /\ \E table \in TableNames, d \in Dialects : b = Select(table, d)
    /\ ret = NoRet
    /\ MapIdle /\ FacadeIdle /\ ExtraIdle

\* how many fluent calls a kept history holds at most
MaxCalls == 3

\* how many Build calls in a row a kept history holds at most
MaxBuilds == 2

\* a fluent call was made: where a history is kept the call is added to it, and
\* what earlier Build calls returned is let go
Recorded(kind, arg) ==
    /\ hist.kept => Len(hist.calls) < MaxCalls
    /\ hist' = IF hist.kept THEN [hist EXCEPT !.calls = Append(@, [kind |-> kind, arg |-> arg])]
               ELSE hist
    /\ built' = <<>>

\* SelectBuilder.Columns: replaces the column list
Columns(cols) ==
    /\ UNCHANGED <<mvars, fvars, ovars>>
    /\ (b.columns = <<>> /\ cols # <<>>) => Size(b) < MaxSize
    /\ b' = [b EXCEPT !.columns = cols]
    /\ ret' = NoRet
    /\ Recorded("Columns", cols)

\* SelectBuilder.Where: appends a clause, unvalidated
Where(column, op, value) ==
    /\ UNCHANGED <<mvars, fvars, ovars>>
    /\ Size(b) < MaxSize
    /\ b' = [b EXCEPT !.where = Append(@, [column |-> column, op |-> op, value |-> value])]
    /\ ret' = NoRet
    /\ Recorded("Where", [column |-> column, op |-> op, value |-> value])

\* SelectBuilder.OrderBy: appends a sort field
OrderBy(column, dir) ==
    /\ UNCHANGED <<mvars, fvars, ovars>>
    /\ Size(b) < MaxSize
    /\ b' = [b EXCEPT !.orderBy = Append(@, [column |-> column, dir |-> dir])]
    /\ ret' = NoRet
    /\ Recorded("OrderBy", [column |-> column, dir |-> dir])

\* SelectBuilder.Limit that leaves a limit given earlier in place
Limit_KeepsFirst(n) ==
    /\ UNCHANGED <<mvars, fvars, ovars>>
    /\ b.limit = <<>> => Size(b) < MaxSize
    /\ b' = IF b.limit = <<>> THEN [b EXCEPT !.limit = <<n>>] ELSE b
    /\ ret' = NoRet
    /\ Recorded("Limit", n)

\* SelectBuilder.Limit: replaces the limit
Limit(n) ==
    /\ UNCHANGED <<mvars, fvars, ovars>>
    /\ b.limit = <<>> => Size(b) < MaxSize
    /\ b' = [b EXCEPT !.limit = <<n>>]
    /\ ret' = NoRet
    /\ Recorded("Limit", n)

\* SelectBuilder.Offset: replaces the offset
Offset(n) ==
    /\ UNCHANGED <<mvars, fvars, ovars>>
    /\ b.offset = <<>> => Size(b) < MaxSize
    /\ b' = [b EXCEPT !.offset = <<n>>]
    /\ ret' = NoRet
    /\ Recorded("Offset", n)

\* a Build that uses up the WHERE clauses it wrote
DoBuild_DrainsWhere ==
    /\ ret' = [call |-> "Build"] @@ Build(b)
    /\ hist.kept => Len(built) < MaxBuilds
    /\ built' = IF hist.kept THEN Append(built, [before |-> b, result |-> Build(b)]) ELSE built
    /\ b' = [b EXCEPT !.where = <<>>]
    /\ UNCHANGED <<hist, mvars, fvars, ovars>>

\* a call of Build; the builder is read, never written.  Where a history is kept,
\* the builder the call found and what it returned are added to it
DoBuild ==
    /\ ret' = [call |-> "Build"] @@ Build(b)
    /\ hist.kept => Len(built) < MaxBuilds
    /\ built' = IF hist.kept THEN Append(built, [before |-> b, result |-> Build(b)]) ELSE built
    /\ UNCHANGED <<b, hist, mvars, fvars, ovars>>

BNext ==
    \/ \E cols \in ColumnLists : Columns(cols)
    \/ \E w \in WhereInputs : Where(w.column, w.op, w.value)
    \/ \E o \in OrderInputs : OrderBy(o.column, o.dir)
    \/ \E n \in LimitValues : Limit(n)
    \/ \E n \in OffsetValues : Offset(n)
    \/ DoBuild

SpecBuilder == BInit /\ [][BNext]_vars

(***************************************************************************)
(* Reading SQL text back: the quoted identifiers and the placeholders of a *)
(* statement, as a SQL lexer sees them.                                    *)
(***************************************************************************)
DigitSet == {Digits[i] : i \in 1..Len(Digits)}

\* the first position at or after i whose character is in C, Len(s) + 1 if none
FirstIn(s, i, C) ==
    CHOOSE k \in i..(Len(s) + 1) :
        /\ k = Len(s) + 1 \/ s[k] \in C
        /\ \A m \in i..(k - 1) : s[m] \notin C

\* the first position at or after i whose character is not in C, Len(s) + 1 if none
FirstNotIn(s, i, C) ==
    CHOOSE k \in i..(Len(s) + 1) :
        /\ k = Len(s) + 1 \/ s[k] \notin C
        /\ \A m \in i..(k - 1) : s[m] \in C

RECURSIVE QuotedEnd(_, _)
\* inside a quoted identifier at j: the position of the quote that closes it
\* (a run of quotes is read in pairs, an unpaired last one closes), Len(s) + 1 if none
QuotedEnd(s, j) ==
    LET q == FirstIn(s, j, {DQ})
        r == FirstNotIn(s, q, {DQ})
    IN  IF q > Len(s) THEN Len(s) + 1
        ELSE IF (r - q) % 2 = 1 THEN r - 1
        ELSE QuotedEnd(s, r)

\* the body of a quoted identifier with every doubled quote read as one
Unescape(c) ==
    LET runStart(k) == CHOOSE m \in 1..k : /\ \A n \in m..k : c[n] = DQ
                                           /\ m = 1 \/ c[m - 1] # DQ
        kept == {k \in 1..Len(c) : c[k] # DQ \/ (k - runStart(k)) % 2 = 1}
        nth(n) == CHOOSE k \in kept : Cardinality({m \in kept : m < k}) = n - 1
    IN  [n \in 1..Cardinality(kept) |-> c[nth(n)]]

RECURSIVE LexIdents(_, _)
\* the identifiers between double quotes, a doubled quote inside standing for one
LexIdents(s, i) ==
    LET open  == FirstIn(s, i, {DQ})
        close == QuotedEnd(s, open + 1)
        name  == Unescape(SubSeq(s, open + 1, close - 1))
    IN  IF open > Len(s) THEN <<>>
        ELSE IF close > Len(s) THEN <<name>>
        ELSE <<name>> \o LexIdents(s, close + 1)

RECURSIVE LexMarkers(_, _)
\* the placeholders outside quoted identifiers: "?" or "$" and its digits
LexMarkers(s, i) ==
    LET p == FirstIn(s, i, {DQ, "?", "$"})
    IN  IF p > Len(s) THEN <<>>
        ELSE IF s[p] = DQ
             THEN LET c == FirstIn(s, p + 1, {DQ})
                  IN  IF c > Len(s) THEN <<>> ELSE LexMarkers(s, c + 1)
        ELSE IF s[p] = "?" THEN << <<"?">> >> \o LexMarkers(s, p + 1)
        ELSE LET j == FirstNotIn(s, p + 1, DigitSet)
             IN  <<SubSeq(s, p, j - 1)>> \o LexMarkers(s, j)

\* the builders that differ from sb at most in the values given to Where, Limit, Offset
Revalued(sb) ==
    { [sb EXCEPT !.where = [i \in 1..Len(sb.where) |-> [sb.where[i] EXCEPT !.value = wv[i]]],
                 !.limit = lv, !.offset = ov] :
        wv \in [1..Len(sb.where) -> WhereValues],
        lv \in IF sb.limit = <<>> THEN {<<>>} ELSE {<<n>> : n \in LimitValues},
        ov \in IF sb.offset = <<>> THEN {<<>>} ELSE {<<n>> : n \in OffsetValues} }

Built == ret.call = "Build"

BuiltOk == Built /\ ret.err = NilErr

IsInvalidInputErr(e) == e # NilErr /\ e[1].t = "database.DBError" /\ e[1].kind = "InvalidInput"

Rejected == Built /\ IsInvalidInputErr(ret.err) /\ ret.sql = <<>> /\ ret.args = <<>>

\* C1 as stated: a Where operator that is not literally one of the nine listed
\* tokens makes Build return InvalidInput, an empty SQL string and no arguments.
C1_AsStated ==
    (Built /\ \E i \in 1..Len(b.where) : b.where[i].op \notin validOps) => Rejected

\* C1, amended: a Where operator whose upper-cased form is not one of the nine
\* listed tokens, at any position and whatever else is set, makes Build return
\* InvalidInput, an empty SQL string and no arguments.
C1_RejectsUnlistedOperator ==
    (Built /\ \E i \in 1..Len(b.where) : ToUpper(b.where[i].op) \notin validOps) => Rejected

C1_Witness ==
    /\ Rejected
    /\ Len(b.where) = 2
    /\ ToUpper(b.where[1].op) \in validOps
    /\ ToUpper(b.where[2].op) \notin validOps
    /\ b.limit # <<>>

\* C2: the SQL text and the error outcome of Build are the same for every choice
\* of the values given to Where, Limit and Offset; the values only reach args.
C2_TextIndependentOfValues ==
    Built => \A sb2 \in Revalued(b) :
                 /\ Build(sb2).sql = ret.sql
                 /\ Build(sb2).err = ret.err
                 /\ ret.err = NilErr =>
                        Build(sb2).args = [i \in 1..Len(sb2.where) |-> sb2.where[i].value]
                                          \o sb2.limit \o sb2.offset

C2_Witness ==
    /\ BuiltOk
    /\ Len(b.where) = 2 /\ b.where[1].value # b.where[2].value
    /\ b.limit # <<>>
    /\ Cardinality(Revalued(b)) > 1

\* what the dialect's i-th placeholder has to be
ExpectedMarker(d, i) == IF d = "DialectMySQL" THEN <<"?">> ELSE <<"$">> \o Itoa(i)

ExampleBuilder(d) ==
    [Select(<<"t">>, d) EXCEPT !.where = << [column |-> <<"a">>, op |-> <<"=">>, value |-> 1] >>,
                               !.limit = <<5>>]

ExamplePostgresSQL ==
    <<"S","E","L","E","C","T"," ","*"," ","F","R","O","M"," ",DQ,"t",DQ," ",
      "W","H","E","R","E"," ",DQ,"a",DQ," ","="," ","$","1"," ","L","I","M","I","T"," ","$","2">>

ExampleMySQLSQL ==
    <<"S","E","L","E","C","T"," ","*"," ","F","R","O","M"," ",DQ,"t",DQ," ",
      "W","H","E","R","E"," ",DQ,"a",DQ," ","="," ","?"," ","L","I","M","I","T"," ","?">>

\* C3: after a successful Build the placeholders of the SQL, read left to right,
\* are exactly the dialect's markers 1..len(args) ($1..$k, or k times ?), and args
\* is the Where values in call order, then the limit, then the offset; the
\* example Select("t").Where("a","=",1).Limit(5) gives the two documented texts.
C3_PlaceholdersMatchArgs ==
    BuiltOk =>
        /\ LexMarkers(ret.sql, 1) = [i \in 1..Len(ret.args) |-> ExpectedMarker(b.dialect, i)]
        /\ ret.args = [i \in 1..Len(b.where) |-> b.where[i].value] \o b.limit \o b.offset
        /\ b = ExampleBuilder("DialectPostgres") => ret.sql = ExamplePostgresSQL /\ ret.args = <<1, 5>>
        /\ b = ExampleBuilder("DialectMySQL") => ret.sql = ExampleMySQLSQL /\ ret.args = <<1, 5>>

C3_Witness ==
    /\ BuiltOk
    /\ b.dialect = "DialectPostgres"
    /\ Len(b.where) = 1 /\ b.limit # <<>> /\ b.offset # <<>>
    /\ Len(ret.args) = 3

\* C4: in the SQL of a successful Build the quoted identifiers, un-quoted the way
\* a SQL lexer does, are exactly the selected columns, the table, the Where
\* columns and the OrderBy columns, in that order, whatever characters they hold.
C4_IdentifiersQuoted ==
    BuiltOk =>
        LexIdents(ret.sql, 1) =
            b.columns \o <<b.table>>
            \o [i \in 1..Len(b.where) |-> b.where[i].column]
            \o [i \in 1..Len(b.orderBy) |-> b.orderBy[i].column]

C4_Witness ==
    /\ BuiltOk
    /\ \E i \in 1..Len(b.table) : b.table[i] = DQ
    /\ Len(b.columns) = 2
    /\ Len(b.where) = 1 /\ b.where[1].column[1] = DQ
    /\ Len(b.orderBy) = 1

(***************************************************************************)
(* Reading a whole request back from (SQL, args): the statement is split   *)
(* at its quoted identifiers, the text between them tells which clause an  *)
(* identifier belongs to, and each placeholder is looked up in args by the *)
(* dialect's convention ($n is args[n], the k-th ? is args[k]).            *)
(***************************************************************************)
RECURSIVE IdentSpans(_, _)
\* the opening and the closing quote of every quoted identifier from i on
IdentSpans(s, i) ==
    LET open  == FirstIn(s, i, {DQ})
        close == QuotedEnd(s, open + 1)
    IN  IF open > Len(s) THEN <<>>
        ELSE IF close > Len(s) THEN << [open |-> open, close |-> close] >>
        ELSE << [open |-> open, close |-> close] >> \o IdentSpans(s, close + 1)

HasSuffix(s, p) == Len(s) >= Len(p) /\ SubSeq(s, Len(s) - Len(p) + 1, Len(s)) = p

HasPrefix(s, p) == Len(s) >= Len(p) /\ SubSeq(s, 1, Len(p)) = p

\* the first position at which p occurs in s, 0 if it does not
Find(s, p) ==
    IF \E i \in 1..(Len(s) - Len(p) + 1) : SubSeq(s, i, i + Len(p) - 1) = p
    THEN CHOOSE i \in 1..(Len(s) - Len(p) + 1) :
             /\ SubSeq(s, i, i + Len(p) - 1) = p
             /\ \A j \in 1..(i - 1) : SubSeq(s, j, j + Len(p) - 1) # p
    ELSE 0

\* the blank-delimited token of s that starts at i
TokenAt(s, i) == SubSeq(s, i, FirstIn(s, i, {" "}) - 1)

RECURSIVE Atoi(_)
\* the number a run of digits denotes; 0 for no digits
Atoi(ds) ==
    IF ds = <<>> THEN 0
    ELSE 10 * Atoi(SubSeq(ds, 1, Len(ds) - 1))
         + (CHOOSE d \in 0..9 : Digits[d + 1] = ds[Len(ds)])

\* no argument stands behind a placeholder
NoArg == "no argument"

\* the argument behind placeholder ph, the ord-th of the statement
ArgBehind(ph, ord, args, dialect) ==
    LET idx == IF dialect = "DialectMySQL" THEN ord
               ELSE IF Len(ph) > 1 /\ \A i \in 2..Len(ph) : ph[i] \in DigitSet THEN Atoi(Tail(ph))
               ELSE 0
    IN  IF idx \in 1..Len(args) THEN args[idx] ELSE NoArg

\* the request a (sql, args) pair of the dialect stands for, in the builder's shape
ParseRequest(sql, args, dialect) ==
    LET sp == IdentSpans(sql, 1)
        n == Len(sp)
        name(k) == Unescape(SubSeq(sql, sp[k].open + 1, sp[k].close - 1))
        before(k) == SubSeq(sql, IF k = 1 THEN 1 ELSE sp[k - 1].close + 1, sp[k].open - 1)
        after(k) == SubSeq(sql, sp[k].close + 1, IF k = n THEN Len(sql) ELSE sp[k + 1].open - 1)
        t == CHOOSE k \in 1..n : /\ HasSuffix(before(k), TxtFrom)
                                 /\ \A j \in 1..(k - 1) : ~HasSuffix(before(j), TxtFrom)
        isWhere(k) == HasSuffix(before(k), TxtWhere) \/ HasSuffix(before(k), TxtAnd)
        whereAt == {k \in (t + 1)..n : isWhere(k)}
        orderAt == {k \in (t + 1)..n : ~isWhere(k)}
        nth(S, i) == CHOOSE k \in S : Cardinality({m \in S : m < k}) = i - 1
        opOf(k) == TokenAt(after(k), 2)
        markerOf(k) == TokenAt(after(k), Len(opOf(k)) + 3)
        tail == after(n)
        limAt == Find(tail, TxtLimit)
        offAt == Find(tail, TxtOffset)
        nw == Cardinality(whereAt)
    IN  [table |-> name(t),
         dialect |-> dialect,
         columns |-> [k \in 1..(t - 1) |-> name(k)],
         where |-> [i \in 1..nw |->
                       [column |-> name(nth(whereAt, i)),
                        op |-> opOf(nth(whereAt, i)),
                        value |-> ArgBehind(markerOf(nth(whereAt, i)), i, args, dialect)]],
         orderBy |-> [i \in 1..Cardinality(orderAt) |->
                       [column |-> name(nth(orderAt, i)),
                        dir |-> HasPrefix(after(nth(orderAt, i)), <<" ">> \o TxtDesc)]],
         limit |-> IF limAt = 0 THEN <<>>
                   ELSE <<ArgBehind(TokenAt(tail, limAt + Len(TxtLimit)), nw + 1, args, dialect)>>,
         offset |-> IF offAt = 0 THEN <<>>
                    ELSE <<ArgBehind(TokenAt(tail, offAt + Len(TxtOffset)),
                                     nw + (IF limAt = 0 THEN 1 ELSE 2), args, dialect)>>]

\* the request the builder holds, each operator in the spelling the allow-list has
Normalized(sb) ==
    [sb EXCEPT !.where = [i \in 1..Len(sb.where) |-> [sb.where[i] EXCEPT !.op = ToUpper(@)]]]

\* C22 as stated: the (SQL, args) pair of a successful Build, read back with the
\* dialect's placeholder convention, gives the request as it was made: columns (or
\* all), every filter's column, operator and value, every sort field, limit, offset.
C22_AsStated ==
    BuiltOk => ParseRequest(ret.sql, ret.args, b.dialect) = b

\* C22, amended: the (SQL, args) pair of a successful Build, read back with the
\* dialect's placeholder convention, gives the request with every operator
\* upper-cased and everything else as it was made: table, columns (or all), the
\* filters in order, the sort fields in order, limit and offset and whether set.
C22_BuildIsLossless ==
    BuiltOk => ParseRequest(ret.sql, ret.args, b.dialect) = Normalized(b)

C22_Witness ==
    /\ BuiltOk
    /\ b.dialect = "DialectMySQL"
    /\ Len(b.where) = 1 /\ b.where[1].op = <<"l","i","k","e">>
    /\ b.where[1].column = <<DQ, "o", "r", DQ>> \/ b.table # <<"t">>
    /\ b.limit = <<>> /\ b.offset # <<>>
    /\ ParseRequest(ret.sql, ret.args, b.dialect).where[1].op = <<"L","I","K","E">>

(***************************************************************************)
(* The builder with the history of its fluent calls kept: the same calls,  *)
(* made in every order, with Build called in between and more than once.   *)
(***************************************************************************)
FluentColumns == { << <<"a">> >>, << <<"a">>, <<DQ, "o", "r", DQ>> >> }

FluentWheres == {
    [column |-> <<"a">>, op |-> <<"=">>, value |-> 1],
    [column |-> <<DQ, "o", "r", DQ>>, op |-> <<"l","i","k","e">>, value |-> 7],
    [column |-> <<"a">>, op |-> <<"=", "=">>, value |-> 1] }

HInit ==
    /\ \E d \in Dialects : b = Select(<<"t">>, d)
    /\ ret = NoRet
    /\ hist = [kept |-> TRUE, calls |-> <<>>] /\ built = <<>>
    /\ MapIdle /\ FacadeIdle /\ OthersIdle

HNext ==
    \/ \E cols \in FluentColumns : Columns(cols)
    \/ \E w \in FluentWheres : Where(w.column, w.op, w.value)
    \/ \E o \in OrderInputs : OrderBy(o.column, o.dir)
    \/ \E n \in LimitValues : Limit(n)
    \/ \E n \in OffsetValues : Offset(n)
    \/ DoBuild

SpecFluent == HInit /\ [][HNext]_vars

\* the arguments of the calls of one kind, in call order
ArgsOf(calls, kind) ==
    LET of == SelectSeq(calls, LAMBDA c : c.kind = kind)
    IN  [i \in 1..Len(of) |-> of[i].arg]

\* the argument of the last call of one kind, if there was one
LastOf(calls, kind) ==
    LET args == ArgsOf(calls, kind)
    IN  IF args = <<>> THEN <<>> ELSE <<args[Len(args)]>>

\* the request a history of fluent calls stands for: Where and OrderBy calls add
\* up in their own order, of Columns, Limit and Offset calls the last one counts
FromCalls(table, d, calls) ==
    [table |-> table,
     dialect |-> d,
     columns |-> IF LastOf(calls, "Columns") = <<>> THEN <<>> ELSE LastOf(calls, "Columns")[1],
     where |-> ArgsOf(calls, "Where"),
     orderBy |-> ArgsOf(calls, "OrderBy"),
     limit |-> LastOf(calls, "Limit"),
     offset |-> LastOf(calls, "Offset")]

\* the clause keywords of the statement stand in the order SELECT, FROM, WHERE,
\* ORDER BY, LIMIT, OFFSET, each present exactly when the request has the clause
ClausesInOrder(sql, req) ==
    LET at == << 1, Find(sql, TxtFrom), Find(sql, TxtWhere), Find(sql, TxtOrderBy),
                 Find(sql, TxtLimit), Find(sql, TxtOffset) >>
        has == << TRUE, TRUE, req.where # <<>>, req.orderBy # <<>>,
                  req.limit # <<>>, req.offset # <<>> >>
    IN  /\ HasPrefix(sql, TxtSelect)
        /\ \A i \in 1..6 : has[i] <=> at[i] > 0
        /\ \A i, j \in 1..6 : (i < j /\ has[i] /\ has[j]) => at[i] < at[j]

\* C25: what Build returns depends on the order of the fluent calls only through
\* the order of the Where calls among themselves and of the OrderBy calls among
\* themselves, and of Columns, Limit and Offset calls only the last one counts;
\* the clauses stand in the order SELECT, FROM, WHERE, ORDER BY, LIMIT, OFFSET and
\* the arguments are the Where values, then the limit, then the offset.
C25_CallOrderIrrelevant ==
    built # <<>> =>
        LET req == FromCalls(b.table, b.dialect, hist.calls)
            r == built[Len(built)].result
        IN  /\ r = Build(req)
            /\ r.err = NilErr =>
                   /\ ClausesInOrder(r.sql, req)
                   /\ r.args = [i \in 1..Len(req.where) |-> req.where[i].value]
                               \o req.limit \o req.offset

C25_Witness ==
    /\ built # <<>>
    /\ hist.calls = << [kind |-> "Offset", arg |-> 3], [kind |-> "Limit", arg |-> 5],
                       [kind |-> "Where", arg |-> [column |-> <<"a">>, op |-> <<"=">>, value |-> 1]] >>
    /\ b.dialect = "DialectPostgres"
    /\ built[1].result.args = <<1, 5, 3>>
    /\ built[1].result =
           Build([Select(<<"t">>, "DialectPostgres") EXCEPT
                     !.where = << [column |-> <<"a">>, op |-> <<"=">>, value |-> 1] >>,
                     !.limit = <<5>>, !.offset = <<3>>])

\* C27: a Build call leaves the builder as it found it, whether it succeeds or
\* fails, and Build calls made one after the other on the same builder return the
\* same SQL, the same args and the same error.
C27_BuildLeavesBuilderAlone ==
    \A i \in 1..Len(built) :
        /\ built[i].before = b
        /\ built[i].result = built[1].result
        /\ built[i].result = Build(b)

C27_Witness ==
    /\ Len(built) = 2
    /\ Len(b.where) = 2 /\ b.limit # <<>>
    /\ built[1].result.err # NilErr
    /\ built[2].before = b

(***************************************************************************)
(* The operator test of Build applied to the spellings a caller may pass.  *)
(***************************************************************************)
\* how many Where calls are made with the spellings
MaxOps == 2

\* the allow-listed tokens, and spellings in other case, with blanks around, and
\* tokens that are not listed
OpSpellings ==
    validOps \cup
    { <<"l","i","k","e">>, <<"L","i","k","e">>, <<"i","l","i","k","e">>,
      <<" ", "=">>, <<"=", " ">>, <<"L","I","K","E"," ">>,
      <<"=", "=">>, <<"i","n">>, <<>>, <<"=", ";">> }

OpInit ==
    /\ \E d \in Dialects : b = Select(<<"t">>, d)
    /\ ret = NoRet
    /\ MapIdle /\ FacadeIdle /\ ExtraIdle

OpNext ==
    \/ \E op \in OpSpellings : Len(b.where) < MaxOps /\ Where(<<"a">>, op, 1)
    \/ DoBuild

SpecOperators == OpInit /\ [][OpNext]_vars

\* op is the token v in some letter case, character for character
SameIgnoringCase(op, v) ==
    Len(op) = Len(v) /\ \A i \in 1..Len(v) : UpperChar(op[i]) = v[i]

\* C26: Build accepts a request exactly when every operator is, letter case
\* aside and with nothing trimmed, one of the nine allow-listed tokens; the
\* operator tokens of the SQL it then returns are those allow-listed tokens, in
\* the allow-list's spelling and in call order; otherwise it returns InvalidInput.
C26_OperatorsNormalized ==
    Built =>
        /\ ret.err = NilErr <=>
               \A i \in 1..Len(b.where) : \E v \in validOps : SameIgnoringCase(b.where[i].op, v)
        /\ ret.err # NilErr => Rejected
        /\ ret.err = NilErr =>
               LET q == ParseRequest(ret.sql, ret.args, b.dialect)
               IN  /\ Len(q.where) = Len(b.where)
                   /\ \A i \in 1..Len(q.where) :
                          /\ q.where[i].op \in validOps
                          /\ SameIgnoringCase(b.where[i].op, q.where[i].op)

C26_Witness ==
    /\ BuiltOk
    /\ Len(b.where) = 2
    /\ b.where[1].op = <<"L","i","k","e">> /\ b.where[2].op = <<"<", ">">>
    /\ ParseRequest(ret.sql, ret.args, b.dialect).where[1].op = <<"L","I","K","E">>

(***************************************************************************)
(* Error translators of the two drivers.                                   *)
(***************************************************************************)
\* the native error consulted before the context and no-rows tests
pgClassify_NativeFirst(err) ==
    IF ErrorsAs(err, "pgconn.PgError")
    THEN LET code == AsTarget(err, "pgconn.PgError").code
         IN  IF Len(code) >= 2 /\ SubSeq(code, 1, 2) = <<"0", "8">>
             THEN "ConnectionFailed"
             ELSE "QueryFailed"
    ELSE IF IsContextErr(err) THEN "Timeout"
    ELSE IF ErrorsIs(err, PgxErrNoRows) THEN "NotFound"
    ELSE "ConnectionFailed"

\* postgres mapError, the kind chosen for a non-nil error
pgClassify(err) ==
    IF IsContextErr(err) THEN "Timeout"
    ELSE IF ErrorsIs(err, PgxErrNoRows) THEN "NotFound"
    ELSE IF ErrorsAs(err, "pgconn.PgError")
         THEN LET code == AsTarget(err, "pgconn.PgError").code
              IN  IF Len(code) >= 2 /\ SubSeq(code, 1, 2) = <<"0", "8">>
                  THEN "ConnectionFailed"
                  ELSE "QueryFailed"
    ELSE "ConnectionFailed"

\* postgres mapError
pgMapError(err) == IF err = NilErr THEN NilErr ELSE WrapDB(pgClassify(err), err)

\* unlisted numbers left unclassified
classifyMySQLCode_DefaultUnknown(code) ==
    CASE code \in {1044, 1045, 1046, 1049} -> "ConnectionFailed"
      [] code \in {1040, 1203} -> "ConnectionFailed"
      [] code \in {1054, 1064, 1146} -> "QueryFailed"
      [] OTHER -> "Unknown"

\* classifyMySQLCode
classifyMySQLCode(code) ==
    CASE code \in {1044, 1045, 1046, 1049} -> "ConnectionFailed"
      [] code \in {1040, 1203} -> "ConnectionFailed"
      [] code \in {1054, 1064, 1146} -> "QueryFailed"
      [] OTHER -> "QueryFailed"

\* the context test left out
mysqlClassify_NoContextTest(err) ==
    IF ErrorsIs(err, SqlErrNoRows) THEN "NotFound"
    ELSE IF ErrorsAs(err, "mysql.MySQLError")
         THEN classifyMySQLCode(AsTarget(err, "mysql.MySQLError").num)
    ELSE "ConnectionFailed"

\* mysql mapError, the kind chosen for a non-nil error
mysqlClassify(err) ==
    IF IsContextErr(err) THEN "Timeout"
    ELSE IF ErrorsIs(err, SqlErrNoRows) THEN "NotFound"
    ELSE IF ErrorsAs(err, "mysql.MySQLError")
         THEN classifyMySQLCode(AsTarget(err, "mysql.MySQLError").num)
    ELSE "ConnectionFailed"

\* mysql mapError
mysqlMapError(err) == IF err = NilErr THEN NilErr ELSE Wrap(mysqlClassify(err), err)

Backends == {"postgres", "mysql"}

\* mapError of the given backend's driver
mapError(be, err) == IF be = "postgres" THEN pgMapError(err) ELSE mysqlMapError(err)

\* the no-rows sentinel of the backend's client library
ErrNoRows(be) == IF be = "postgres" THEN PgxErrNoRows ELSE SqlErrNoRows

\* the native structured error type of the backend's client library
NativeType(be) == IF be = "postgres" THEN "pgconn.PgError" ELSE "mysql.MySQLError"

\* the closed set of kinds (database.ErrKind and errs.ErrKind)
Kinds == {"Unknown", "NotFound", "ConnectionFailed", "Timeout", "QueryFailed",
          "InvalidInput", "PermissionDenied"}

(***************************************************************************)
(* Inputs of mapError: an error is given by the nodes errors.Is/As visit,  *)
(* in visiting order.                                                      *)
(***************************************************************************)
MaxChain == 2

PgCodes == { <<"0","8","0","0","6">>, <<"4","2","5","0","1">>, <<"4","2","6","0","1">>, <<"0">> }

MySQLNumbers == {1040, 1044, 1045, 1064, 1142, 1213}

ErrNodes ==
    {DeadlineExceeded, Canceled, PgxErrNoRows, SqlErrNoRows, OtherErr}
    \cup {PgError(c) : c \in PgCodes} \cup {MySQLError(n) : n \in MySQLNumbers}

ErrChains == UNION {[1..n -> ErrNodes] : n \in 0..MaxChain}

\* the error handed to mapError is any chain of the bound; nothing is mapped yet
MInit == mapIn \in ErrChains /\ mapOut = NotMapped /\ BuilderIdle /\ FacadeIdle /\ ExtraIdle

\* the Postgres driver's mapError applied to the error
MapErrorPostgres ==
    /\ mapOut = NotMapped
    /\ mapOut' = [backend |-> "postgres", err |-> pgMapError(mapIn)]
    /\ UNCHANGED <<mapIn, bvars, fvars, xvars>>

\* the MySQL driver's mapError applied to the error
MapErrorMySQL ==
    /\ mapOut = NotMapped
    /\ mapOut' = [backend |-> "mysql", err |-> mysqlMapError(mapIn)]
    /\ UNCHANGED <<mapIn, bvars, fvars, xvars>>

MNext ==
    \/ MapErrorPostgres
    \/ MapErrorMySQL

SpecMapError == MInit /\ [][MNext]_vars

Mapped == mapOut.backend # "none" /\ mapIn # NilErr

OutKind == mapOut.err[1].kind

HasNoRows == ErrorsIs(mapIn, ErrNoRows(mapOut.backend))

HasNative == ErrorsAs(mapIn, NativeType(mapOut.backend))

\* C5: for both drivers, an error with a context deadline or cancellation in its
\* chain is Timeout even when it also is the no-rows sentinel or a native error;
\* otherwise the no-rows sentinel is NotFound even with a native error present;
\* only the remaining errors are classified by native code or fallback.
C5_ClassificationPriority ==
    Mapped =>
        /\ IsContextErr(mapIn) => OutKind = "Timeout"
        /\ (~IsContextErr(mapIn) /\ HasNoRows) => OutKind = "NotFound"
        /\ (~IsContextErr(mapIn) /\ ~HasNoRows) => OutKind \notin {"Timeout", "NotFound"}

C5_Witness ==
    /\ Mapped
    /\ Len(mapIn) = 2
    /\ mapIn[1].t = NativeType(mapOut.backend)
    /\ mapIn[2] = Canceled
    /\ OutKind = "Timeout"

\* the native codes the driver's classification names explicitly
ListedNative ==
    /\ HasNative
    /\ LET n == AsTarget(mapIn, NativeType(mapOut.backend))
       IN  IF mapOut.backend = "postgres"
           THEN Len(n.code) >= 2 /\ SubSeq(n.code, 1, 2) = <<"0", "8">>
           ELSE n.num \in {1044, 1045, 1046, 1049, 1040, 1203, 1054, 1064, 1146}

\* mapError returned a classified unified error that keeps the native error as cause
Classified ==
    /\ mapOut.err # NilErr
    /\ mapOut.err[1].t \in {"database.DBError", "errs.Error"}
    /\ mapOut.err[1].kind \in Kinds
    /\ Tail(mapOut.err) = mapIn

\* C9 as stated: every non-nil error that is no context error, no no-rows
\* sentinel and no listed native code, an unlisted native code included, is
\* classified ConnectionFailed.
C9_AsStated ==
    (Mapped /\ ~IsContextErr(mapIn) /\ ~HasNoRows /\ ~ListedNative) =>
        Classified /\ OutKind = "ConnectionFailed"

\* C9, amended: of the non-nil errors that are no context error and no no-rows
\* sentinel, those without a native structured error are classified
\* ConnectionFailed and those whose native code is not listed are classified
\* QueryFailed; mapError never returns nil for a non-nil error and always returns
\* a unified error with a Kind of the enumeration and the native error as cause.
C9_FallbackKinds ==
    Mapped =>
        /\ Classified
        /\ (~IsContextErr(mapIn) /\ ~HasNoRows /\ ~HasNative) => OutKind = "ConnectionFailed"
        /\ (~IsContextErr(mapIn) /\ ~HasNoRows /\ HasNative /\ ~ListedNative) => OutKind = "QueryFailed"

C9_Witness ==
    /\ Mapped
    /\ mapOut.backend = "mysql"
    /\ mapIn = <<OtherErr, MySQLError(1213)>>
    /\ OutKind = "QueryFailed"

\* a native permission-denial: SQLSTATE 42501, MySQL 1044 / 1045 / 1142
PermissionDenial ==
    /\ HasNative
    /\ LET n == AsTarget(mapIn, NativeType(mapOut.backend))
       IN  IF mapOut.backend = "postgres"
           THEN n.code = <<"4","2","5","0","1">>
           ELSE n.num \in {1044, 1045, 1142}

\* C10: a native permission-denial error (no context error, no no-rows sentinel
\* in its chain) is classified PermissionDenied by the driver's mapError.
C10_PermissionDenied ==
    (Mapped /\ ~IsContextErr(mapIn) /\ ~HasNoRows /\ PermissionDenial) =>
        OutKind = "PermissionDenied"

(***************************************************************************)
(* Connection facade: the Driver of either backend, the cursors it hands   *)
(* out and the scan helpers.  The pool and the server are the environment: *)
(* what they answer is chosen with \E among the outcomes they can produce. *)
(***************************************************************************)
MaxRows == 2

\* the column names of the result sets the caller queries: distinct names, and the
\* same name twice (SELECT 1 AS n, 2 AS n)
ResultColumns == { <<"id", "name">>, <<"n", "n">> }

\* the values of the i-th row of a result set with the given columns
RowValues(i, columns) == [j \in 1..Len(columns) |-> 10 * i + j]

\* ctx.Err() of a context that is done
ctxNode(c) == IF c = "DeadlineExceeded" THEN DeadlineExceeded ELSE Canceled

\* what the client library reports for a done context: ctx.Err(), bare or wrapped
CtxErrs(c) == { <<ctxNode(c)>>, <<OtherErr, ctxNode(c)>> }

\* what the client library reports when the backend fails: a network error, a
\* native error with a code the driver lists, a native error with one it does not
EnvErrs(be) ==
    IF be = "postgres"
    THEN { <<OtherErr>>, <<PgError(<<"0","8","0","0","6">>)>>, <<PgError(<<"4","2","5","0","1">>)>> }
    ELSE { <<OtherErr>>, <<MySQLError(1045)>>, <<MySQLError(1213)>> }

\* database.errQuery(msg, cause)
errQuery(cause) == WrapDB("QueryFailed", cause)

\* kindOf of package database: the Kind of the first *DBError in the chain
databaseKindOf(err) ==
    IF ErrorsAs(err, "database.DBError") THEN AsTarget(err, "database.DBError").kind ELSE "Unknown"

\* kindOf of package errs: the Kind of the first *errs.Error in the chain
errsKindOf(err) ==
    IF ErrorsAs(err, "errs.Error") THEN AsTarget(err, "errs.Error").kind ELSE "Unknown"

\* IsTimeout of the package whose error type the backend's driver returns
IsTimeout(be, err) ==
    IF be = "postgres" THEN databaseKindOf(err) = "Timeout" ELSE errsKindOf(err) = "Timeout"

\* the caller holds no open cursor and no unscanned Row: it is between operations.
\* A facade call is made then, and a cursor that was closed is let go
Idle == cur.state # "open" /\ row.state = "none"

\* the caller holds a Driver: New returned one and Close was not called on it
HasDriver == pool.state = "open"

\* Driver.Ping of either backend: the pool's ping, its error through mapError
driverPing(be, e) == IF e # NilErr THEN mapError(be, e) ELSE NilErr

\* postgres.New that returns the ping's error without closing the pool
pgNew_PoolLeftOpen(parseErr, buildErr, pingErr) ==
    IF parseErr # NilErr
    THEN [driver |-> FALSE, err |-> WrapDB("ConnectionFailed", parseErr), pool |-> "none",
          calls |-> <<"ParseConfig">>]
    ELSE IF buildErr # NilErr
    THEN [driver |-> FALSE, err |-> WrapDB("ConnectionFailed", buildErr), pool |-> "none",
          calls |-> <<"ParseConfig", "NewWithConfig">>]
    ELSE IF driverPing("postgres", pingErr) # NilErr
    THEN [driver |-> FALSE, err |-> driverPing("postgres", pingErr), pool |-> "open",
          calls |-> <<"ParseConfig", "NewWithConfig", "Ping">>]
    ELSE [driver |-> TRUE, err |-> NilErr, pool |-> "open",
          calls |-> <<"ParseConfig", "NewWithConfig", "Ping">>]

\* postgres.New: ParseConfig, NewWithConfig, Ping; a failed ping closes the pool
pgNew(parseErr, buildErr, pingErr) ==
    IF parseErr # NilErr
    THEN [driver |-> FALSE, err |-> WrapDB("ConnectionFailed", parseErr), pool |-> "none",
          calls |-> <<"ParseConfig">>]
    ELSE IF buildErr # NilErr
    THEN [driver |-> FALSE, err |-> WrapDB("ConnectionFailed", buildErr), pool |-> "none",
          calls |-> <<"ParseConfig", "NewWithConfig">>]
    ELSE IF driverPing("postgres", pingErr) # NilErr
    THEN [driver |-> FALSE, err |-> driverPing("postgres", pingErr), pool |-> "closed",
          calls |-> <<"ParseConfig", "NewWithConfig", "Ping", "Close">>]
    ELSE [driver |-> TRUE, err |-> NilErr, pool |-> "open",
          calls |-> <<"ParseConfig", "NewWithConfig", "Ping">>]

\* mysql.New: sql.Open, Ping under the connect timeout; a failed ping closes the pool
mysqlNew(openErr, pingErr) ==
    IF openErr # NilErr
    THEN [driver |-> FALSE, err |-> Wrap("ConnectionFailed", openErr), pool |-> "none",
          calls |-> <<"Open">>]
    ELSE IF driverPing("mysql", pingErr) # NilErr
    THEN [driver |-> FALSE, err |-> driverPing("mysql", pingErr), pool |-> "closed",
          calls |-> <<"Open", "Ping", "Close">>]
    ELSE [driver |-> TRUE, err |-> NilErr, pool |-> "open", calls |-> <<"Open", "Ping">>]

\* New of the backend's package
New(be, parseErr, buildErr, pingErr) ==
    IF be = "postgres" THEN pgNew(parseErr, buildErr, pingErr) ELSE mysqlNew(parseErr, pingErr)

\* what the pool's ping answers during New: nil, a backend failure, the context's
\* error; in mysql also the expiry of the connect timeout New puts on the ping
PingErrs ==
    IF ctx # "live" THEN CtxErrs(ctx)
    ELSE {NilErr} \cup EnvErrs(backend)
         \cup (IF backend = "mysql" THEN CtxErrs("DeadlineExceeded") ELSE {})

\* a call of New by a caller that holds no Driver
DoNew ==
    /\ ~HasDriver
    /\ \E parseErr \in {NilErr, <<OtherErr>>}, buildErr \in {NilErr, <<OtherErr>>},
          pingErr \in PingErrs :
         LET r == New(backend, parseErr, buildErr, pingErr)
         IN  /\ fret' = [FRet("New", ctx, r.err) EXCEPT !.flag = r.driver, !.calls = r.calls]
             /\ pool' = [state |-> r.pool, cursors |-> 0]
    /\ cur' = NoCursor /\ row' = NoRow
    /\ UNCHANGED <<backend, ctx, catalog, bvars, mvars, xvars>>

\* Driver.Close: the pool is drained; the Driver is of no use afterwards
DriverClose ==
    /\ HasDriver /\ Idle
    /\ pool' = [pool EXCEPT !.state = "closed"]
    /\ fret' = FRet("Close", ctx, NilErr)
    /\ cur' = NoCursor
    /\ UNCHANGED <<backend, ctx, row, catalog, bvars, mvars, xvars>>

\* the caller's context is cancelled or its deadline passes
CtxDone(c) ==
    /\ ctx = "live"
    /\ ctx' = c
    /\ UNCHANGED <<backend, cur, row, fret, catalog, pool, bvars, mvars, xvars>>

\* the caller takes a fresh context for its next calls
NewContext ==
    /\ ctx # "live"
    /\ ctx' = "live"
    /\ UNCHANGED <<backend, cur, row, fret, catalog, pool, bvars, mvars, xvars>>

\* Driver.Ping: pool.Ping, its error through mapError
Ping ==
    /\ HasDriver /\ Idle
    /\ cur' = NoCursor
    /\ \E e \in (IF ctx = "live" THEN {NilErr} \cup EnvErrs(backend) ELSE CtxErrs(ctx)) :
           fret' = FRet("Ping", ctx, driverPing(backend, e))
    /\ UNCHANGED <<backend, ctx, row, catalog, pool, bvars, mvars, xvars>>

\* Driver.Query: pool.Query; on error (nil, mapError(err)), else the wrapped cursor
Query ==
    /\ HasDriver /\ Idle
    /\ \/ /\ ctx = "live"
          /\ \E n \in 0..MaxRows, cols \in ResultColumns :
                 /\ cur' = [state |-> "open", left |-> n, onRow |-> FALSE, err |-> NilErr,
                            pos |-> 0, columns |-> cols]
                 /\ fret' = [FRet("Query", ctx, NilErr) EXCEPT !.cursor = TRUE]
       \/ /\ \E e \in (IF ctx = "live" THEN EnvErrs(backend) ELSE CtxErrs(ctx)) :
                 fret' = FRet("Query", ctx, mapError(backend, e))
          /\ cur' = NoCursor
    /\ UNCHANGED <<backend, ctx, row, catalog, pool, bvars, mvars, xvars>>

\* pgxRows.Next / mysqlRows.Next: the library's Next, unchanged
RowsNext ==
    /\ cur.state = "open"
    /\ \/ /\ ctx = "live" /\ cur.left > 0
          /\ cur' = [cur EXCEPT !.left = @ - 1, !.pos = @ + 1, !.onRow = TRUE]
          /\ fret' = [FRet("Rows.Next", ctx, NilErr) EXCEPT !.flag = TRUE]
       \/ /\ ctx = "live" /\ cur.left = 0
          /\ cur' = [cur EXCEPT !.state = "closed", !.onRow = FALSE]
          /\ fret' = FRet("Rows.Next", ctx, NilErr)
       \/ /\ \E e \in (IF ctx = "live" THEN EnvErrs(backend) ELSE CtxErrs(ctx)) :
                 cur' = [cur EXCEPT !.state = "closed", !.left = 0, !.onRow = FALSE, !.err = e]
          /\ fret' = FRet("Rows.Next", ctx, NilErr)
    /\ UNCHANGED <<backend, ctx, row, catalog, pool, bvars, mvars, xvars>>

\* pgxRows.Scan / mysqlRows.Scan: the library's error, as it is
RowsScan ==
    /\ cur.state = "open" /\ cur.onRow
    /\ \E e \in {NilErr, <<OtherErr>>} : fret' = FRet("Rows.Scan", ctx, e)
    /\ UNCHANGED <<backend, ctx, cur, row, catalog, pool, bvars, mvars, xvars>>

\* pgxRows.Err / mysqlRows.Err: the library's error, as it is
RowsErr ==
    /\ cur.state # "none"
    /\ fret' = [FRet("Rows.Err", ctx, cur.err) EXCEPT !.mid = IsContextErr(cur.err)]
    /\ UNCHANGED <<backend, ctx, cur, row, catalog, pool, bvars, mvars, xvars>>

\* pgxRows.Close / mysqlRows.Close
RowsClose ==
    /\ cur.state = "open"
    /\ cur' = [cur EXCEPT !.state = "closed", !.left = 0, !.onRow = FALSE]
    /\ fret' = FRet("Rows.Close", ctx, NilErr)
    /\ UNCHANGED <<backend, ctx, row, catalog, pool, bvars, mvars, xvars>>

\* Driver.QueryRow: always (row, nil); the outcome waits in the Row for Scan
QueryRow ==
    /\ HasDriver /\ Idle
    /\ cur' = NoCursor
    /\ \/ /\ ctx = "live"
          /\ \E present \in BOOLEAN :
                 row' = [state |-> "pending", present |-> present, err |-> NilErr]
       \/ \E e \in (IF ctx = "live" THEN EnvErrs(backend) ELSE CtxErrs(ctx)) :
              row' = [state |-> "pending", present |-> FALSE, err |-> e]
    /\ fret' = FRet("QueryRow", ctx, NilErr)
    /\ UNCHANGED <<backend, ctx, catalog, pool, bvars, mvars, xvars>>

\* what the library's Row.Scan answers: the stored error, the context's error if
\* the context ended after QueryRow returned, no-rows, a conversion error, or nil
RowScanErrs ==
    IF row.err # NilErr THEN {row.err}
    ELSE (IF ctx # "live" THEN CtxErrs(ctx) ELSE {})
         \cup (IF row.present THEN {NilErr, <<OtherErr>>} ELSE {<<ErrNoRows(backend)>>})

\* pgxRow.Scan / mysqlRow.Scan: the library's error, as it is
RowScan ==
    /\ row.state = "pending"
    /\ \E e \in RowScanErrs :
           fret' = [FRet("Row.Scan", ctx, e) EXCEPT !.mid = (row.err = NilErr /\ IsContextErr(e))]
    /\ row' = NoRow
    /\ UNCHANGED <<backend, ctx, cur, catalog, pool, bvars, mvars, xvars>>

\* database.ScanRow: row.Scan, its error wrapped by errQuery
ScanRow ==
    /\ row.state = "pending"
    /\ \E e \in RowScanErrs :
           fret' = [FRet("ScanRow", ctx, IF e # NilErr THEN errQuery(e) ELSE NilErr)
                        EXCEPT !.flag = (e = NilErr),
                               !.mid = (row.err = NilErr /\ IsContextErr(e))]
    /\ row' = NoRow
    /\ UNCHANGED <<backend, ctx, cur, catalog, pool, bvars, mvars, xvars>>

\* row[col] = dest[i] for every column of the cursor, keyed by its ordinal instead
rowMap_ByOrdinal(columns, dest) ==
    [c \in {ToString(i) : i \in 1..Len(columns)} |->
        dest[CHOOSE i \in 1..Len(columns) : ToString(i) = c]]

\* row[col] = dest[i] for i, col := range columns: a map keyed by the column
\* names; of two columns with one name the later one is the value kept
rowMap(columns, dest) ==
    [c \in {columns[i] : i \in 1..Len(columns)} |->
        dest[CHOOSE i \in 1..Len(columns) :
                 columns[i] = c /\ \A j \in (i + 1)..Len(columns) : columns[j] # c]]

\* ScanRows without its deferred Close
deferClose_Forgotten(calls) == calls

\* defer rows.Close(): whatever ScanRows returns, Close is the last call it makes
deferClose(calls) == Append(calls, "Close")

\* database.ScanRows over a cursor with the given columns: Columns, the Next/Scan
\* loop, Err, and the deferred Close.  colErr is what Columns answers, rows are the
\* rows Next delivers, failAt the row whose Scan fails with scanErr (0: none),
\* iterErr what Err answers after Next turned false
ScanRowsRun(columns, colErr, rows, failAt, scanErr, iterErr) ==
    LET loop(n) == [i \in 1..(2 * n) |-> IF i % 2 = 1 THEN "Next" ELSE "Scan"]
        failed(e, calls) ==
            [list |-> <<>>, nilList |-> TRUE, err |-> errQuery(e), calls |-> deferClose(calls)]
    IN  IF colErr # NilErr THEN failed(colErr, <<"Columns">>)
        ELSE IF failAt > 0 THEN failed(scanErr, <<"Columns">> \o loop(failAt))
        ELSE IF iterErr # NilErr
             THEN failed(iterErr, <<"Columns">> \o loop(Len(rows)) \o <<"Next", "Err">>)
        ELSE [list |-> [i \in 1..Len(rows) |-> rowMap(columns, rows[i])],
              nilList |-> FALSE,
              err |-> NilErr,
              calls |-> deferClose(<<"Columns">> \o loop(Len(rows)) \o <<"Next", "Err">>)]

\* the next n rows of the cursor
RowsFrom(c, n) == [i \in 1..n |-> RowValues(c.pos + i, c.columns)]

\* what the caller gets back from ScanRows, with the cursor it passed
ScanRowsRet(r, c, mid) ==
    [FRet("ScanRows", c, r.err) EXCEPT !.list = r.list, !.nilList = r.nilList,
                                       !.calls = r.calls, !.arg = cur, !.mid = mid]

\* the cursor after ScanRows read n rows of it: released by Close, or by the
\* library when Next turned false; e is the error the iteration met
CursorAfter(r, n, e) ==
    LET released == \E i \in 1..Len(r.calls) : r.calls[i] \in {"Close", "Err"}
    IN  [cur EXCEPT !.state = IF released THEN "closed" ELSE @,
                    !.left = IF released THEN 0 ELSE @ - n,
                    !.pos = @ + n,
                    !.onRow = ~released /\ (n > 0 \/ @),
                    !.err = e]

ScanRows ==
    /\ cur.state # "none"
    /\ \/ \* mysql: Columns() of a closed *sql.Rows fails
          /\ backend = "mysql" /\ cur.state = "closed"
          /\ LET r == ScanRowsRun(cur.columns, <<OtherErr>>, <<>>, 0, NilErr, NilErr)
             IN  /\ fret' = ScanRowsRet(r, ctx, FALSE)
                 /\ cur' = CursorAfter(r, 0, cur.err)
          /\ ctx' = ctx
       \/ \* postgres: a closed cursor yields no row and its stored error
          /\ backend = "postgres" /\ cur.state = "closed"
          /\ LET r == ScanRowsRun(cur.columns, NilErr, <<>>, 0, NilErr, cur.err)
             IN  /\ fret' = ScanRowsRet(r, ctx, IsContextErr(cur.err))
                 /\ cur' = CursorAfter(r, 0, cur.err)
          /\ ctx' = ctx
       \/ \* every remaining row is read, Next ends the iteration, Err is nil
          /\ cur.state = "open"
          /\ LET r == ScanRowsRun(cur.columns, NilErr, RowsFrom(cur, cur.left), 0, NilErr, NilErr)
             IN  /\ fret' = ScanRowsRet(r, ctx, FALSE)
                 /\ cur' = CursorAfter(r, cur.left, NilErr)
          /\ ctx' = ctx
       \/ \* Scan of some row fails
          /\ cur.state = "open" /\ ctx = "live"
          /\ \E k \in 1..cur.left :
               LET r == ScanRowsRun(cur.columns, NilErr, RowsFrom(cur, k), k, <<OtherErr>>, NilErr)
               IN  /\ fret' = ScanRowsRet(r, ctx, FALSE)
                   /\ cur' = CursorAfter(r, k, NilErr)
          /\ ctx' = ctx
       \/ \* the backend fails during the iteration: Next is false, Err reports it
          /\ cur.state = "open" /\ ctx = "live"
          /\ \E e \in EnvErrs(backend), n \in 0..cur.left :
               LET r == ScanRowsRun(cur.columns, NilErr, RowsFrom(cur, n), 0, NilErr, e)
               IN  /\ fret' = ScanRowsRet(r, ctx, FALSE)
                   /\ cur' = CursorAfter(r, n, e)
          /\ ctx' = ctx
       \/ \* the context ends before or during the iteration: Next is false, Err reports it
          /\ cur.state = "open"
          /\ \E c \in (IF ctx = "live" THEN {"DeadlineExceeded", "Canceled"} ELSE {ctx}) :
               \E e \in CtxErrs(c), n \in (IF ctx = "live" THEN 0..cur.left ELSE {0}) :
                 LET r == ScanRowsRun(cur.columns, NilErr, RowsFrom(cur, n), 0, NilErr, e)
                 IN  /\ fret' = ScanRowsRet(r, c, TRUE)
                     /\ cur' = CursorAfter(r, n, e)
                     /\ ctx' = c
    /\ UNCHANGED <<backend, row, catalog, pool, bvars, mvars, xvars>>

(***************************************************************************)
(* Introspection.  A catalog is the sequence of its base tables in name    *)
(* order; a fault is the one failure the backend may cause during a call:  *)
(* in which of the call's queries, in which phase, after how many rows.    *)
(***************************************************************************)
NoFault == [q |-> 0, phase |-> "none", k |-> 0, err |-> NilErr]

\* what a query of an introspection call fails with, or its iteration: a network
\* error, a native error, the deadline of the context passing meanwhile
FaultErrs(be) ==
    { <<OtherErr>>, <<DeadlineExceeded>>,
      IF be = "postgres" THEN <<PgError(<<"4","2","5","0","1">>)>> ELSE <<MySQLError(1045)>> }

Faults(be, c, nq) ==
    IF c # "live"
    THEN {[q |-> 1, phase |-> "query", k |-> 0, err |-> e] : e \in CtxErrs(c)}
    ELSE {NoFault}
         \cup {[q |-> q, phase |-> ph, k |-> 0, err |-> e] :
                  q \in 1..nq, ph \in {"query", "iter"}, e \in FaultErrs(be)}
         \cup {[q |-> q, phase |-> "scan", k |-> k, err |-> <<OtherErr>>] :
                  q \in 1..nq, k \in {0, 1}}

\* the context after a call during which fault f happened
CtxAfter(c, f) ==
    IF c = "live" /\ f.err = <<Canceled>> THEN "Canceled"
    ELSE IF c = "live" /\ f.err = <<DeadlineExceeded>> THEN "DeadlineExceeded"
    ELSE c

\* the calls of a rows.Next / rows.Scan loop that scans n rows
NextScan(n) == [i \in 1..(2 * n) |-> IF i % 2 = 1 THEN "Next" ELSE "Scan"]

\* one pool.Query and its Next/Scan loop over the rows the catalog holds: where it
\* stopped, the library's error there, and the rows scanned before
Cursor(rowsIn, f, q) ==
    IF f.q = q /\ f.phase = "query"
    THEN [stage |-> "query", err |-> f.err, got |-> <<>>, calls |-> <<"QueryFailed">>]
    ELSE IF f.q = q /\ f.phase = "scan" /\ f.k < Len(rowsIn)
         THEN [stage |-> "scan", err |-> f.err, got |-> SubSeq(rowsIn, 1, f.k),
               calls |-> <<"Query">> \o NextScan(f.k + 1)]
    ELSE IF f.q = q /\ f.phase = "iter"
         THEN LET n == IF f.k < Len(rowsIn) THEN f.k ELSE Len(rowsIn)
              IN  [stage |-> "iter", err |-> f.err, got |-> SubSeq(rowsIn, 1, n),
                   calls |-> <<"Query">> \o NextScan(n) \o <<"Next", "Err">>]
    ELSE [stage |-> "ok", err |-> NilErr, got |-> rowsIn,
          calls |-> <<"Query">> \o NextScan(Len(rowsIn)) \o <<"Next", "Err">>]

\* a fetch that calls rows.Close() only after its loop, not on a return from within
deferRowsClose_AfterLoopOnly(c) ==
    IF c.stage \in {"iter", "ok"} THEN Append(c.calls, "Close") ELSE c.calls

\* defer rows.Close(), placed behind the error test of the query: once the query
\* gave a cursor, Close is the last call on it, whichever return is taken
deferRowsClose(c) ==
    IF c.stage = "query" THEN c.calls ELSE Append(c.calls, "Close")

\* the cursors a fetch that made these calls still holds: those opened and not closed
Held(calls) ==
    Cardinality({i \in 1..Len(calls) : calls[i] = "Query"})
        - Cardinality({i \in 1..Len(calls) : calls[i] = "Close"})

EmptyTable(name) == [name |-> name, columns |-> <<>>, pk |-> <<>>, uniques |-> <<>>, fks |-> <<>>]

\* the catalog's entry for a table name; no rows for a table that is not there
TableOf(cat, name) ==
    IF \E i \in 1..Len(cat) : cat[i].name = name
    THEN cat[CHOOSE i \in 1..Len(cat) : cat[i].name = name]
    ELSE EmptyTable(name)

RECURSIVE Flatten(_)
Flatten(ss) == IF ss = <<>> THEN <<>> ELSE Head(ss) \o Flatten(Tail(ss))

\* information_schema.columns.column_key of MySQL for column c of table t
ColumnKey(t, c) ==
    IF \E i \in 1..Len(t.pk) : t.pk[i] = c THEN "PRI"
    ELSE IF \E i \in 1..Len(t.uniques) : t.uniques[i] = <<c>> THEN "UNI"
    ELSE IF \/ \E i \in 1..Len(t.uniques) : t.uniques[i][1] = c
            \/ \E i \in 1..Len(t.fks) : t.fks[i].column = c
         THEN "MUL"
    ELSE ""

\* toSet
toSet(ss) == {ss[i] : i \in 1..Len(ss)}

\* Driver.ListTables of either backend: every failure goes through mapError
ListTables(be, cat, f) ==
    LET c == Cursor([i \in 1..Len(cat) |-> cat[i].name], f, 1)
    IN  IF c.stage # "ok"
        THEN [err |-> mapError(be, c.err), tables |-> <<>>, held |-> Held(deferRowsClose(c))]
        ELSE [err |-> NilErr, tables |-> c.got, held |-> Held(deferRowsClose(c))]

\* a fetch of the drivers that returns rows.Err() as it is: fetchColumns,
\* fetchForeignKeys, and, in postgres, fetchStringList
fetchRaw(be, rowsIn, f, q) ==
    LET c == Cursor(rowsIn, f, q)
    IN  IF c.stage \in {"query", "scan"}
        THEN [err |-> mapError(be, c.err), got |-> <<>>, held |-> Held(deferRowsClose(c))]
        ELSE [err |-> c.err, got |-> c.got, held |-> Held(deferRowsClose(c))]

\* postgres Driver.inspectTable that goes on without foreign keys when their fetch fails
pgInspectTable_IgnoresForeignKeyError(cat, name, f, qbase) ==
    LET t == TableOf(cat, name)
        columns == fetchRaw("postgres", t.columns, f, qbase + 1)
        pks == fetchRaw("postgres", t.pk, f, qbase + 2)
        uniqueCols == fetchRaw("postgres", Flatten(t.uniques), f, qbase + 3)
        fks == fetchRaw("postgres", t.fks, f, qbase + 4)
    IN  IF columns.err # NilErr
        THEN [err |-> columns.err, info |-> <<>>, held |-> columns.held]
        ELSE IF pks.err # NilErr
        THEN [err |-> pks.err, info |-> <<>>, held |-> columns.held + pks.held]
        ELSE IF uniqueCols.err # NilErr
        THEN [err |-> uniqueCols.err, info |-> <<>>,
              held |-> columns.held + pks.held + uniqueCols.held]
        ELSE [err |-> NilErr,
              held |-> columns.held + pks.held + uniqueCols.held + fks.held,
              info |-> << [name |-> name,
                           columns |-> [i \in 1..Len(columns.got) |->
                                          [name |-> columns.got[i],
                                           isPrimary |-> columns.got[i] \in toSet(pks.got),
                                           isUnique |-> columns.got[i] \in toSet(uniqueCols.got)]],
                           primaryKey |-> pks.got,
                           foreignKeys |-> IF fks.err # NilErr THEN <<>> ELSE fks.got] >>]

\* postgres Driver.inspectTable: columns, primary keys, unique columns, foreign keys
pgInspectTable(cat, name, f, qbase) ==
    LET t == TableOf(cat, name)
        columns == fetchRaw("postgres", t.columns, f, qbase + 1)
        pks == fetchRaw("postgres", t.pk, f, qbase + 2)
        uniqueCols == fetchRaw("postgres", Flatten(t.uniques), f, qbase + 3)
        fks == fetchRaw("postgres", t.fks, f, qbase + 4)
    IN  IF columns.err # NilErr
        THEN [err |-> columns.err, info |-> <<>>, held |-> columns.held]
        ELSE IF pks.err # NilErr
        THEN [err |-> pks.err, info |-> <<>>, held |-> columns.held + pks.held]
        ELSE IF uniqueCols.err # NilErr
        THEN [err |-> uniqueCols.err, info |-> <<>>,
              held |-> columns.held + pks.held + uniqueCols.held]
        ELSE IF fks.err # NilErr
        THEN [err |-> fks.err, info |-> <<>>,
              held |-> columns.held + pks.held + uniqueCols.held + fks.held]
        ELSE [err |-> NilErr,
              held |-> columns.held + pks.held + uniqueCols.held + fks.held,
              info |-> << [name |-> name,
                           columns |-> [i \in 1..Len(columns.got) |->
                                          [name |-> columns.got[i],
                                           isPrimary |-> columns.got[i] \in toSet(pks.got),
                                           isUnique |-> columns.got[i] \in toSet(uniqueCols.got)]],
                           primaryKey |-> pks.got,
                           foreignKeys |-> fks.got] >>]

\* mysql Driver.inspectTable whose fetchColumns never appends to pks
mysqlInspectTable_NoPrimaryKeys(cat, name, f, qbase) ==
    LET t == TableOf(cat, name)
        columns == fetchRaw("mysql", t.columns, f, qbase + 1)
        cols == [i \in 1..Len(columns.got) |->
                    [name |-> columns.got[i],
                     isPrimary |-> ColumnKey(t, columns.got[i]) = "PRI",
                     isUnique |-> ColumnKey(t, columns.got[i]) = "UNI"]]
        fks == fetchRaw("mysql", t.fks, f, qbase + 2)
    IN  IF columns.err # NilErr
        THEN [err |-> columns.err, info |-> <<>>, held |-> columns.held]
        ELSE IF fks.err # NilErr
        THEN [err |-> fks.err, info |-> <<>>, held |-> columns.held + fks.held]
        ELSE [err |-> NilErr,
              held |-> columns.held + fks.held,
              info |-> << [name |-> name,
                           columns |-> cols,
                           primaryKey |-> <<>>,
                           foreignKeys |-> fks.got] >>]

\* mysql Driver.inspectTable: columns with column_key, then foreign keys
mysqlInspectTable(cat, name, f, qbase) ==
    LET t == TableOf(cat, name)
        columns == fetchRaw("mysql", t.columns, f, qbase + 1)
        cols == [i \in 1..Len(columns.got) |->
                    [name |-> columns.got[i],
                     isPrimary |-> ColumnKey(t, columns.got[i]) = "PRI",
                     isUnique |-> ColumnKey(t, columns.got[i]) = "UNI"]]
        fks == fetchRaw("mysql", t.fks, f, qbase + 2)
    IN  IF columns.err # NilErr
        THEN [err |-> columns.err, info |-> <<>>, held |-> columns.held]
        ELSE IF fks.err # NilErr
        THEN [err |-> fks.err, info |-> <<>>, held |-> columns.held + fks.held]
        ELSE [err |-> NilErr,
              held |-> columns.held + fks.held,
              info |-> << [name |-> name,
                           columns |-> cols,
                           primaryKey |-> SelectSeq(columns.got, LAMBDA c : ColumnKey(t, c) = "PRI"),
                           foreignKeys |-> fks.got] >>]

\* how many queries inspectTable issues
QueriesPerTable(be) == IF be = "postgres" THEN 4 ELSE 2

inspectTable(be, cat, name, f, qbase) ==
    IF be = "postgres" THEN pgInspectTable(cat, name, f, qbase)
    ELSE mysqlInspectTable(cat, name, f, qbase)

\* fmt.Errorf("inspecting table %q: %w", tableName, err)
WrapErrorNode == Node("fmt.wrapError", "", <<>>, 0)

RECURSIVE inspectTables(_, _, _, _, _)
\* Driver.InspectSchema, the loop over the listed tables from the i-th on
inspectTables(be, cat, tables, i, f) ==
    IF i > Len(tables) THEN [err |-> NilErr, infos |-> <<>>, held |-> 0]
    ELSE LET one == inspectTable(be, cat, tables[i], f, 1 + QueriesPerTable(be) * (i - 1))
         IN  IF one.err # NilErr
             THEN [err |-> <<WrapErrorNode>> \o one.err, infos |-> <<>>, held |-> one.held]
             ELSE LET rest == inspectTables(be, cat, tables, i + 1, f)
                  IN  IF rest.err # NilErr
                      THEN [rest EXCEPT !.held = @ + one.held]
                      ELSE [err |-> NilErr, infos |-> one.info \o rest.infos,
                            held |-> one.held + rest.held]

\* Driver.InspectSchema of either backend: ListTables over the catalog as it is
\* when the call starts, then inspectTable for every listed name over the catalog
\* as it is by then (another session may have dropped a table in between)
InspectSchema(be, cat, catAfter, f) ==
    LET lt == ListTables(be, cat, f)
    IN  IF lt.err # NilErr THEN [err |-> lt.err, infos |-> <<>>, held |-> lt.held]
        ELSE [inspectTables(be, catAfter, lt.tables, 1, f) EXCEPT !.held = @ + lt.held]

\* Driver.TableExists that hands the no-rows outcome to mapError like any other error
TableExists_NoRowsIsError(be, e) ==
    IF e = NilErr THEN [exists |-> TRUE, err |-> NilErr]
    ELSE [exists |-> FALSE, err |-> mapError(be, e)]

\* Driver.TableExists of either backend: QueryRow(...).Scan, no-rows is (false, nil)
TableExists(be, e) ==
    IF e = NilErr THEN [exists |-> TRUE, err |-> NilErr]
    ELSE IF ErrorsIs(e, ErrNoRows(be)) THEN [exists |-> FALSE, err |-> NilErr]
    ELSE [exists |-> FALSE, err |-> mapError(be, e)]

OrdersTable ==
    [name |-> "orders", columns |-> <<"id", "user_id">>, pk |-> <<"id">>, uniques |-> <<>>,
     fks |-> << [column |-> "user_id", refTable |-> "users", refColumn |-> "id"] >>]

UsersTable ==
    [name |-> "users", columns |-> <<"id", "email">>, pk |-> <<"id">>,
     uniques |-> << <<"email">> >>, fks |-> <<>>]

Catalogs == { <<>>, <<OrdersTable, UsersTable>> }

TableArgs == {"users", "ghost"}

\* the table names of a catalog
Names(cat) == [i \in 1..Len(cat) |-> cat[i].name]

\* the catalog without the table of that name
Without(cat, name) == SelectSeq(cat, LAMBDA t : t.name # name)

\* the rows the q-th query of an introspection call reads: the listing first, then,
\* table after table in listing order, the queries of inspectTable
QueryRows(be, cat, catAfter, q) ==
    IF q = 1 THEN Names(cat)
    ELSE LET t == TableOf(catAfter, cat[((q - 2) \div QueriesPerTable(be)) + 1].name)
             j == ((q - 2) % QueriesPerTable(be)) + 1
         IN  IF j = 1 THEN t.columns
             ELSE IF be = "mysql" THEN t.fks
             ELSE IF j = 2 THEN t.pk
             ELSE IF j = 3 THEN Flatten(t.uniques)
             ELSE t.fks

\* where the fault struck the call: the query and the phase, or nowhere when the
\* call never came to the point the fault was waiting at
Struck(be, cat, catAfter, f, nq) ==
    IF /\ f # NoFault
       /\ f.q <= nq
       /\ f.phase = "scan" => f.k < Len(QueryRows(be, cat, catAfter, f.q))
    THEN [q |-> f.q, phase |-> f.phase]
    ELSE [q |-> 0, phase |-> "none"]

\* a call of ListTables
DoListTables ==
    /\ HasDriver /\ Idle
    /\ cur' = NoCursor
    /\ \E f \in Faults(backend, ctx, 1) :
         LET r == ListTables(backend, catalog, f)
         IN  /\ fret' = [FRet("ListTables", ctx, r.err) EXCEPT
                            !.list = r.tables, !.nilList = (r.tables = <<>>),
                            !.arg = [struck |-> Struck(backend, catalog, catalog, f, 1)]]
             /\ pool' = [pool EXCEPT !.cursors = @ + r.held]
             /\ ctx' = CtxAfter(ctx, f)
    /\ UNCHANGED <<backend, row, catalog, bvars, mvars, xvars>>

\* a call of TableExists
DoTableExists ==
    /\ HasDriver /\ Idle
    /\ cur' = NoCursor
    /\ \E name \in TableArgs :
         \E e \in (IF ctx # "live" THEN CtxErrs(ctx)
                   ELSE EnvErrs(backend) \cup
                        (IF \E i \in 1..Len(catalog) : catalog[i].name = name
                         THEN {NilErr} ELSE {<<ErrNoRows(backend)>>})) :
           LET r == TableExists(backend, e)
           IN  fret' = [FRet("TableExists", ctx, r.err) EXCEPT
                           !.flag = r.exists,
                           !.arg = [name |-> name,
                                    failed |-> e \notin {NilErr, <<ErrNoRows(backend)>>}]]
    /\ UNCHANGED <<backend, ctx, row, catalog, pool, bvars, mvars, xvars>>

\* a call of InspectSchema; while it runs another session may drop one table,
\* after the listing and before the table's columns are fetched
DoInspectSchema ==
    /\ HasDriver /\ Idle
    /\ cur' = NoCursor
    /\ \E f \in Faults(backend, ctx, 1 + QueriesPerTable(backend) * Len(catalog)),
          gone \in {""} \cup {catalog[i].name : i \in 1..Len(catalog)} :
         LET catAfter == Without(catalog, gone)
             r == InspectSchema(backend, catalog, catAfter, f)
         IN  /\ fret' = [FRet("InspectSchema", ctx, r.err) EXCEPT
                            !.schema = r.infos, !.hasSchema = (r.err = NilErr),
                            !.arg = [struck |-> Struck(backend, catalog, catAfter, f,
                                                       1 + QueriesPerTable(backend) * Len(catalog)),
                                     listed |-> Names(catalog),
                                     gone |-> gone]]
             /\ pool' = [pool EXCEPT !.cursors = @ + r.held]
             /\ ctx' = CtxAfter(ctx, f)
             /\ catalog' = catAfter
    /\ UNCHANGED <<backend, row, bvars, mvars, xvars>>

FInit ==
    /\ backend \in Backends
    /\ catalog \in Catalogs
    /\ ctx = "live" /\ cur = NoCursor /\ row = NoRow /\ fret = NoFRet
    /\ pool = NoPool
    /\ BuilderIdle /\ MapIdle /\ ExtraIdle

FNext ==
    \/ DoNew
    \/ DriverClose
    \/ \E c \in {"DeadlineExceeded", "Canceled"} : CtxDone(c)
    \/ NewContext
    \/ Ping
    \/ Query
    \/ RowsNext
    \/ RowsScan
    \/ RowsErr
    \/ RowsClose
    \/ QueryRow
    \/ RowScan
    \/ ScanRows
    \/ ScanRow
    \/ DoListTables
    \/ DoTableExists
    \/ DoInspectSchema

SpecFacade == FInit /\ [][FNext]_vars

\* the error is one of the two unified error values, at the outside
IsUnified(err) == err # NilErr /\ err[1].t \in {"database.DBError", "errs.Error"}

C7_MidQueryCancelIsTimeout ==
    (fret.op \in {"Rows.Scan", "Rows.Err", "Row.Scan", "ScanRows", "ScanRow"} /\ fret.mid) =>
        (databaseKindOf(fret.err) = "Timeout" \/ errsKindOf(fret.err) = "Timeout")

\* C8: every non-nil error returned by Ping, Query, ListTables, TableExists,
\* InspectSchema, by Scan and Err of the Rows and Row handed out, and by Build,
\* has the unified error type as its outer type.
C8_OnlyUnifiedErrors ==
    /\ (fret.op \in {"Ping", "Query", "ListTables", "TableExists", "InspectSchema",
                     "Rows.Scan", "Rows.Err", "Row.Scan"} /\ fret.err # NilErr)
           => IsUnified(fret.err)
    /\ (ret.call = "Build" /\ ret.err # NilErr) => IsUnified(ret.err)

\* IsNotFound of package database
IsNotFound(err) == databaseKindOf(err) = "NotFound"

\* C11: ScanRow on a Row of either backend whose Scan reports the no-rows
\* condition returns a nil map and an error of Kind NotFound: IsNotFound(err).
C11_ScanRowAbsentIsNotFound ==
    (fret.op = "ScanRow" /\ ErrorsIs(fret.err, ErrNoRows(backend))) =>
        /\ ~fret.flag
        /\ IsNotFound(fret.err)

\* C12: when ScanRows succeeds the sequence it returns is not nil, even for zero
\* rows, and holds one map per row the cursor had still to deliver, in cursor
\* order, each keyed by exactly the cursor's column names and holding under each
\* name a value of that row's column of that name.
C12_ScanRowsOneMapPerRow ==
    (fret.op = "ScanRows" /\ fret.err = NilErr) =>
        LET c == fret.arg
            names == {c.columns[j] : j \in 1..Len(c.columns)}
        IN  /\ ~fret.nilList
            /\ Len(fret.list) = c.left
            /\ \A i \in 1..Len(fret.list) :
                   /\ DOMAIN fret.list[i] = names
                   /\ \A n \in names :
                          \E j \in 1..Len(c.columns) :
                              /\ c.columns[j] = n
                              /\ fret.list[i][n] = RowValues(c.pos + i, c.columns)[j]

C12_Witness ==
    /\ fret.op = "ScanRows" /\ fret.err = NilErr
    /\ fret.arg.state = "open" /\ fret.arg.left = 0
    /\ fret.list = <<>> /\ ~fret.nilList

\* C13: when ScanRows has returned, on success and on every failure, the cursor
\* is closed, Close was the last call ScanRows made on it and the only Close.
C13_ScanRowsClosesCursor ==
    fret.op = "ScanRows" =>
        /\ cur.state = "closed"
        /\ fret.calls # <<>>
        /\ fret.calls[Len(fret.calls)] = "Close"
        /\ \A i \in 1..(Len(fret.calls) - 1) : fret.calls[i] # "Close"

C13_Witness ==
    /\ fret.op = "ScanRows" /\ fret.err # NilErr
    /\ Len(fret.calls) = 6
    /\ fret.calls[5] = "Scan" /\ fret.calls[6] = "Close"
    /\ cur.state = "closed"

\* C15: New of either backend returns a Driver exactly when it returns no error;
\* with a Driver the pool is open and was pinged; with an error no pool is left
\* open: none was built, or the one built was closed after the failed ping.
C15_NewPingsAndReleases ==
    fret.op = "New" =>
        /\ fret.flag <=> fret.err = NilErr
        /\ fret.flag => pool.state = "open" /\ \E i \in 1..Len(fret.calls) : fret.calls[i] = "Ping"
        /\ ~fret.flag => pool.state \in {"none", "closed"}
        /\ (~fret.flag /\ \E i \in 1..Len(fret.calls) : fret.calls[i] = "Ping") =>
               pool.state = "closed" /\ fret.calls[Len(fret.calls)] = "Close"

C15_Witness ==
    /\ fret.op = "New" /\ backend = "postgres"
    /\ ~fret.flag /\ fret.err # NilErr
    /\ fret.calls = <<"ParseConfig", "NewWithConfig", "Ping", "Close">>
    /\ pool.state = "closed"

\* C14: the Driver holds no cursor open between calls: every cursor a ListTables
\* or InspectSchema call opened was closed before the call returned, whether it
\* succeeded or failed, a failed Scan in the middle of an iteration included.
C14_NoCursorLeftOpen ==
    pool.cursors = 0

C14_Witness ==
    /\ fret.op = "InspectSchema" /\ fret.err # NilErr
    /\ fret.arg.struck.phase = "scan" /\ fret.arg.struck.q > 1
    /\ pool.cursors = 0

\* C16: when a table that ListTables returned is gone, so that the fetch of its
\* columns reads zero rows, InspectSchema returns an error.
C16_DroppedTableIsAnError ==
    (/\ fret.op = "InspectSchema"
     /\ fret.arg.struck.q # 1
     /\ \E i \in 1..Len(fret.arg.listed) : fret.arg.listed[i] = fret.arg.gone)
        => fret.err # NilErr

\* C17: InspectSchema returns a Schema exactly when it returns no error; the
\* Schema then holds one TableInfo for each table name ListTables returned and no
\* other; a failure of any query of the call, for any table, leaves an error and
\* no Schema.
C17_SchemaAllOrNothing ==
    fret.op = "InspectSchema" =>
        /\ fret.hasSchema <=> fret.err = NilErr
        /\ ~fret.hasSchema => fret.schema = <<>>
        /\ fret.hasSchema => [i \in 1..Len(fret.schema) |-> fret.schema[i].name] = fret.arg.listed
        /\ fret.arg.struck.q # 0 => fret.err # NilErr /\ ~fret.hasSchema

C17_Witness ==
    /\ fret.op = "InspectSchema" /\ backend = "postgres"
    /\ fret.arg.struck = [q |-> 9, phase |-> "iter"]
    /\ fret.err # NilErr /\ ~fret.hasSchema /\ fret.schema = <<>>

\* C18: TableExists returns (true, nil) for a table of the catalog, (false, nil)
\* for a name that is not in it, and (false, error) exactly when the existence
\* query failed; the no-rows outcome is never inside a returned error.
C18_TableExistsAbsenceIsNoError ==
    fret.op = "TableExists" =>
        /\ fret.err = NilErr <=> ~fret.arg.failed
        /\ fret.err = NilErr =>
               (fret.flag <=> \E i \in 1..Len(catalog) : catalog[i].name = fret.arg.name)
        /\ fret.err # NilErr => ~fret.flag
        /\ ~ErrorsIs(fret.err, ErrNoRows(backend))

C18_Witness ==
    /\ fret.op = "TableExists" /\ fret.arg.name = "ghost"
    /\ catalog # <<>>
    /\ ~fret.arg.failed /\ ~fret.flag /\ fret.err = NilErr

(***************************************************************************)
(* inspectTable as a function of the table's definition: one table, no     *)
(* failure, each backend's path applied to it.                             *)
(***************************************************************************)
\* the primary keys tried: none, one column, two columns in and against column order
PrimaryKeys == { <<>>, <<"a">>, <<"a", "b">>, <<"b", "a">> }

\* the UNIQUE constraints tried: none, one column, two columns, several constraints
UniqueSets ==
    { <<>>, << <<"a">> >>, << <<"c">> >>, << <<"b", "c">> >>, << <<"a", "b">>, <<"c">> >> }

ForeignKeySets == { <<>>, << [column |-> "c", refTable |-> "users", refColumn |-> "id"] >> }

TableDefs ==
    { [name |-> "t", columns |-> <<"a", "b", "c">>, pk |-> pk, uniques |-> uq, fks |-> fk] :
        pk \in PrimaryKeys, uq \in UniqueSets, fk \in ForeignKeySets }

IInit ==
    /\ backend \in Backends
    /\ catalog \in { <<t>> : t \in TableDefs }
    /\ ctx = "live" /\ cur = NoCursor /\ row = NoRow /\ fret = NoFRet
    /\ pool = [state |-> "open", cursors |-> 0]
    /\ BuilderIdle /\ MapIdle /\ ExtraIdle

\* Driver.inspectTable of the backend for the table of the catalog
DoInspectTable ==
    /\ fret.op = "none"
    /\ LET r == inspectTable(backend, catalog, catalog[1].name, NoFault, 0)
       IN  /\ fret' = [FRet("inspectTable", ctx, r.err) EXCEPT
                          !.schema = r.info, !.hasSchema = (r.err = NilErr)]
           /\ pool' = [pool EXCEPT !.cursors = @ + r.held]
    /\ UNCHANGED <<backend, ctx, cur, row, catalog, bvars, mvars, xvars>>

INext == DoInspectTable

SpecInspect == IInit /\ [][INext]_vars

C20_SameFlagsOnBothBackends ==
    fret.op = "inspectTable" =>
        LET other == IF backend = "postgres" THEN "mysql" ELSE "postgres"
            there == inspectTable(other, catalog, catalog[1].name, NoFault, 0).info[1]
            here == fret.schema[1]
        IN  \A i \in 1..Len(here.columns) :
                /\ here.columns[i].isPrimary = there.columns[i].isPrimary
                /\ here.columns[i].isUnique = there.columns[i].isUnique

(***************************************************************************)
(* Schema assembly, run after run against one catalog.  The queries behind *)
(* ListTables, fetchColumns and fetchPrimaryKeys end in ORDER BY; the      *)
(* foreign-key queries of both drivers do not, so the backend is free to   *)
(* return a table's foreign keys in any order, in every run anew.          *)
(***************************************************************************)
LineItemsTable ==
    [name |-> "line_items", columns |-> <<"id", "order_id", "user_id">>, pk |-> <<"id">>,
     uniques |-> <<>>,
     fks |-> << [column |-> "order_id", refTable |-> "orders", refColumn |-> "id"],
                [column |-> "user_id", refTable |-> "users", refColumn |-> "id"] >>]

AssemblyCatalogs ==
    { <<LineItemsTable>>, <<LineItemsTable, UsersTable>> }

\* the orders in which a query without ORDER BY may return the rows s
ReturnOrders(s) ==
    {p \in [1..Len(s) -> {s[i] : i \in 1..Len(s)}] : \A i \in 1..Len(s) : \E j \in 1..Len(s) : p[j] = s[i]}

\* the catalog as one run's queries see it: each table's foreign keys in the order
\* the backend returns them this time
AsReturned(cat) ==
    {seen \in [1..Len(cat) -> UNION {{[cat[i] EXCEPT !.fks = o] : o \in ReturnOrders(cat[i].fks)} :
                                        i \in 1..Len(cat)}] :
        \A i \in 1..Len(cat) : seen[i].name = cat[i].name}

\* what a run left behind for the next one to be compared with
NoRun == <<>>

AInit ==
    /\ backend \in Backends
    /\ catalog \in AssemblyCatalogs
    /\ ctx = "live" /\ cur = NoCursor /\ row = NoRow /\ fret = NoFRet
    /\ pool = [state |-> "open", cursors |-> 0]
    /\ BuilderIdle /\ MapIdle /\ ExtraIdle

\* a call of InspectSchema against the catalog, which nobody changes; the run
\* before it, if there was one, is kept beside its result
RunInspectSchema ==
    /\ HasDriver /\ Idle
    /\ \E seen \in AsReturned(catalog) :
       \E f \in {g \in Faults(backend, ctx, 1 + QueriesPerTable(backend) * Len(catalog)) :
                    g.err \in {NilErr, <<OtherErr>>}} :
         LET r == InspectSchema(backend, seen, seen, f)
         IN  /\ fret' = [FRet("InspectSchema", ctx, r.err) EXCEPT
                            !.schema = r.infos, !.hasSchema = (r.err = NilErr),
                            !.arg = [struck |-> Struck(backend, seen, seen, f,
                                                       1 + QueriesPerTable(backend) * Len(catalog)),
                                     listed |-> Names(catalog),
                                     gone |-> "",
                                     prev |-> IF fret.op = "InspectSchema"
                                              THEN << [schema |-> fret.schema,
                                                       hasSchema |-> fret.hasSchema] >>
                                              ELSE NoRun]]
             /\ pool' = [pool EXCEPT !.cursors = @ + r.held]
    /\ UNCHANGED <<backend, ctx, cur, row, catalog, bvars, mvars, xvars>>

ANext == RunInspectSchema

SpecAssembly == AInit /\ [][ANext]_vars

\* what the assembly keeps in every run: the tables in listing order, each table's
\* columns in ordinal order, and the failing table's error when a fetch failed
AssemblyOrderKept ==
    (fret.op = "InspectSchema" /\ fret.hasSchema) =>
        /\ [i \in 1..Len(fret.schema) |-> fret.schema[i].name] = Names(catalog)
        /\ \A i \in 1..Len(catalog) :
               [j \in 1..Len(fret.schema[i].columns) |-> fret.schema[i].columns[j].name]
                   = catalog[i].columns

\* C21: two runs of InspectSchema against an unchanged catalog that both return
\* a Schema return equal Schema values, foreign keys in the same order included.
C21_RunsReturnEqualSchemas ==
    (/\ fret.op = "InspectSchema" /\ fret.hasSchema
     /\ fret.arg.prev # NoRun /\ fret.arg.prev[1].hasSchema)
        => fret.schema = fret.arg.prev[1].schema

(***************************************************************************)
(* The key queries over a catalog with named constraints.  The postgres    *)
(* fetchPrimaryKeys joins table_constraints to key_column_usage on the     *)
(* constraint's name and schema only; PostgreSQL keeps constraint names    *)
(* unique per table, not per schema, and key_column_usage also holds the   *)
(* columns of foreign keys.  The mysql fetchColumns reads column_key of    *)
(* the table's own columns.                                                *)
(***************************************************************************)
KeyedA(columns, pkName) ==
    [name |-> "a", columns |-> columns, pk |-> <<"id">>, uniques |-> <<>>, fks |-> <<>>,
     pkName |-> pkName, fkNames |-> <<>>]

KeyedB(pk, fkName) ==
    [name |-> "b", columns |-> <<"x", "y">>, pk |-> pk, uniques |-> <<>>,
     fks |-> << [column |-> "x", refTable |-> "a", refColumn |-> "id"] >>,
     pkName |-> "b_pkey", fkNames |-> <<fkName>>]

\* table a with its primary key under the default name or the name k, table b with
\* a foreign key to a under the default name or the name k
KeyedCatalogs ==
    { << KeyedA(columns, pkName), KeyedB(pk, fkName) >> :
        columns \in { <<"id">>, <<"id", "x">> }, pkName \in {"a_pkey", "k"},
        pk \in { <<>>, <<"y">> }, fkName \in {"b_x_fkey", "k"} }

\* information_schema.key_column_usage of the schema: the columns of primary keys
\* and of foreign keys, under their constraint's name
KeyColumnUsage(cat) ==
    UNION { {[constraint |-> cat[i].pkName, table |-> cat[i].name,
              column |-> cat[i].pk[k], ordinal |-> k] : k \in 1..Len(cat[i].pk)}
            \cup {[constraint |-> cat[i].fkNames[j], table |-> cat[i].name,
                   column |-> cat[i].fks[j].column, ordinal |-> 1] : j \in 1..Len(cat[i].fks)} :
            i \in 1..Len(cat) }

\* postgres fetchPrimaryKeys, the rows of its join: the PRIMARY KEY constraint of
\* the table, and every key_column_usage row that carries the constraint's name
pgPrimaryKeyRows(cat, name) ==
    LET t == TableOf(cat, name)
    IN  IF t.pk = <<>> THEN {}
        ELSE {r \in KeyColumnUsage(cat) : r.constraint = t.pkName}

\* postgres fetchPrimaryKeys, ORDER BY kcu.ordinal_position: the rows in every
\* order that is sorted by ordinal position
OrderedByOrdinal(rows) ==
    {o \in [1..Cardinality(rows) -> rows] :
        /\ \A r \in rows : \E i \in 1..Cardinality(rows) : o[i] = r
        /\ \A i, j \in 1..Cardinality(rows) : i < j => o[i].ordinal <= o[j].ordinal}

\* the catalog as the key queries of a backend see it: for postgres, each table's
\* primary-key rows are those of the join; for mysql, the table's own
AsQueried(be, cat) ==
    IF be = "mysql" THEN {cat}
    ELSE {seen \in [1..Len(cat) ->
                      UNION {{[cat[i] EXCEPT !.pk = [k \in 1..Len(o) |-> o[k].column]] :
                                 o \in OrderedByOrdinal(pgPrimaryKeyRows(cat, cat[i].name))} :
                             i \in 1..Len(cat)}] :
             \A i \in 1..Len(cat) :
                 /\ seen[i].name = cat[i].name
                 /\ \E o \in OrderedByOrdinal(pgPrimaryKeyRows(cat, cat[i].name)) :
                        seen[i].pk = [k \in 1..Len(o) |-> o[k].column]}

KInit ==
    /\ backend \in Backends
    /\ catalog \in KeyedCatalogs
    /\ ctx = "live" /\ cur = NoCursor /\ row = NoRow /\ fret = NoFRet
    /\ pool = [state |-> "open", cursors |-> 0]
    /\ BuilderIdle /\ MapIdle /\ ExtraIdle

\* a call of InspectSchema against the catalog with named constraints
InspectKeyedSchema ==
    /\ fret.op = "none"
    /\ \E seen \in AsQueried(backend, catalog) :
         LET r == InspectSchema(backend, seen, seen, NoFault)
         IN  /\ fret' = [FRet("InspectSchema", ctx, r.err) EXCEPT
                            !.schema = r.infos, !.hasSchema = (r.err = NilErr)]
             /\ pool' = [pool EXCEPT !.cursors = @ + r.held]
    /\ UNCHANGED <<backend, ctx, cur, row, catalog, bvars, mvars, xvars>>

\* Driver.inspectTable for one table of the catalog with named constraints
InspectKeyedTable(name) ==
    /\ fret.op = "none"
    /\ \E seen \in AsQueried(backend, catalog) :
         LET r == inspectTable(backend, seen, name, NoFault, 0)
         IN  /\ fret' = [FRet("inspectTable", ctx, r.err) EXCEPT
                            !.schema = r.info, !.hasSchema = (r.err = NilErr)]
             /\ pool' = [pool EXCEPT !.cursors = @ + r.held]
    /\ UNCHANGED <<backend, ctx, cur, row, catalog, bvars, mvars, xvars>>

KNext ==
    \/ InspectKeyedSchema
    \/ \E name \in {"a", "b"} : InspectKeyedTable(name)

SpecKeys == KInit /\ [][KNext]_vars

\* what holds of every TableInfo: a column is flagged primary exactly when its
\* name is in the PrimaryKey list
KeyFlagsFollowList ==
    fret.hasSchema =>
        \A i \in 1..Len(fret.schema) :
            \A j \in 1..Len(fret.schema[i].columns) :
                fret.schema[i].columns[j].isPrimary
                    <=> fret.schema[i].columns[j].name \in toSet(fret.schema[i].primaryKey)

\* C28: in every TableInfo of either backend a column has IsPrimary exactly when
\* its name is in the TableInfo's PrimaryKey, and every name in PrimaryKey is the
\* name of one of the TableInfo's columns.
C28_PrimaryKeyWithinColumns ==
    fret.hasSchema =>
        \A i \in 1..Len(fret.schema) :
            LET info == fret.schema[i]
                names == {info.columns[j].name : j \in 1..Len(info.columns)}
            IN  /\ \A j \in 1..Len(info.columns) :
                       info.columns[j].isPrimary <=> info.columns[j].name \in toSet(info.primaryKey)
                /\ toSet(info.primaryKey) \subseteq names

(***************************************************************************)
(* The Connect-style DB: New stores the configuration only, Connect builds *)
(* the pool, Ping and Close use it.  Three DB types are in the repository: *)
(* the postgres DB, the mysql DB that implements database.Reader, and the  *)
(* mysql DB that implements database.DB.                                   *)
(***************************************************************************)
DBVariants == {"postgres", "mysqlReader", "mysql"}

\* the client library a DB type talks to
LibraryOf(variant) == IF variant = "postgres" THEN "postgres" ELSE "mysql"

\* mapError of package postgres for the DB type
pgDBMapError(err) ==
    IF err = NilErr THEN NilErr
    ELSE IF ErrorsIs(err, PgxErrNoRows) THEN WrapDB("ErrKindNotFound", err)
    ELSE IF /\ ErrorsAs(err, "pgconn.PgError")
            /\ AsTarget(err, "pgconn.PgError").code = <<"0","8","0","0","6">>
         THEN WrapDB("ErrKindConnection", err)
    ELSE IF /\ ErrorsAs(err, "pgconn.PgError")
            /\ AsTarget(err, "pgconn.PgError").code
                   \in { <<"4","2","6","0","1">>, <<"4","2","P","0","1">>, <<"4","2","7","0","3">> }
         THEN WrapDB("ErrKindQuery", err)
    ELSE WrapDB("ErrKindUnknown", err)

\* mapError of package mysql for the DB type
mysqlDBMapError(err) ==
    IF err = NilErr THEN NilErr
    ELSE IF ErrorsAs(err, "mysql.MySQLError")
         THEN LET number == AsTarget(err, "mysql.MySQLError").num
              IN  CASE number \in {1062, 1452, 1451} -> WrapDB("ErrKindConflict", err)
                    [] number \in {1045, 2003, 1049} -> WrapDB("ErrKindConnection", err)
                    [] number = 1054 -> WrapDB("ErrKindQuery", err)
                    [] OTHER -> WrapDB("ErrKindUnknown", err)
    ELSE WrapDB("ErrKindUnknown", err)

dbMapError(variant, err) ==
    IF variant = "postgres" THEN pgDBMapError(err) ELSE mysqlDBMapError(err)

\* &database.DBError{Kind: database.ErrKindConnection, Message: "not connected"}
errNotConnected == <<DBErrorNode("ErrKindConnection")>>

\* a DB on which nothing was called since New
NewDB(variant) ==
    [variant |-> variant, pool |-> "nil", op |-> "New", found |-> "nil",
     err |-> NilErr, panicked |-> FALSE]

\* DB.Connect: buildPool, in mysql followed by a ping of the new pool; the pool is
\* stored only when all of it succeeded
dbConnect(d, buildErr, pingErr) ==
    IF buildErr # NilErr
    THEN [d EXCEPT !.op = "Connect", !.found = d.pool,
                   !.err = IF d.variant = "postgres" /\ ErrorsAs(buildErr, "pgconn.PgError")
                           THEN pgDBMapError(buildErr)
                           ELSE <<OtherErr>> \o buildErr]
    ELSE IF d.variant # "postgres" /\ pingErr # NilErr
    THEN [d EXCEPT !.op = "Connect", !.found = d.pool, !.err = mysqlDBMapError(pingErr)]
    ELSE [d EXCEPT !.op = "Connect", !.found = d.pool, !.err = NilErr, !.pool = "open"]

\* DB.Ping: the postgres DB and the mysql Reader DB answer "not connected" for a
\* nil pool; the mysql DB calls PingContext on its pool as it is, and a call on
\* a nil *sql.DB is a nil pointer dereference
dbPing(d, pingErr) ==
    IF d.pool = "nil" /\ d.variant \in {"postgres", "mysqlReader"}
    THEN [d EXCEPT !.op = "Ping", !.found = d.pool, !.err = errNotConnected]
    ELSE IF d.pool = "nil"
    THEN [d EXCEPT !.op = "Ping", !.found = d.pool, !.err = NilErr, !.panicked = TRUE]
    ELSE [d EXCEPT !.op = "Ping", !.found = d.pool, !.err = dbMapError(d.variant, pingErr)]

\* DB.Close: closes the pool if there is one; the field keeps the closed pool
dbClose(d) ==
    [d EXCEPT !.op = "Close", !.found = d.pool, !.err = NilErr,
              !.pool = IF d.pool = "nil" THEN "nil" ELSE "closed"]

\* what a ping of the pool can answer: nil, a failure of the backend, the error of
\* a context that is done; a closed pool answers with an error of its own
PoolPingErrs(d) ==
    IF d.pool = "closed" THEN { <<OtherErr>> }
    ELSE IF ctx # "live" THEN CtxErrs(ctx)
    ELSE {NilErr} \cup EnvErrs(LibraryOf(d.variant))

CInit ==
    /\ \E variant \in DBVariants : db = NewDB(variant)
    /\ cfg = NoConfig
    /\ BuilderIdle /\ MapIdle /\ FacadeIdle /\ HistoryIdle /\ SharingIdle /\ LoggerIdle

DBConnect ==
    /\ ~db.panicked
    /\ \E buildErr \in {NilErr, <<OtherErr>>} \cup
                       (IF db.variant = "postgres" THEN EnvErrs("postgres") ELSE {}),
          pingErr \in (IF ctx # "live" THEN CtxErrs(ctx) ELSE {NilErr} \cup EnvErrs("mysql")) :
         db' = dbConnect(db, buildErr, pingErr)
    /\ UNCHANGED <<bvars, mvars, fvars, hvars, cvars, lvars, cfg>>

DBPing ==
    /\ ~db.panicked
    /\ \E pingErr \in PoolPingErrs(db) : db' = dbPing(db, pingErr)
    /\ UNCHANGED <<bvars, mvars, fvars, hvars, cvars, lvars, cfg>>

DBClose ==
    /\ ~db.panicked
    /\ db' = dbClose(db)
    /\ UNCHANGED <<bvars, mvars, fvars, hvars, cvars, lvars, cfg>>

CNext ==
    \/ DBConnect
    \/ DBPing
    \/ DBClose
    \/ \E c \in {"DeadlineExceeded", "Canceled"} : CtxDone(c)
    \/ NewContext

SpecConnect == CInit /\ [][CNext]_vars

\* what holds of every DB type: a Connect that fails leaves the pool field as it
\* found it, so a DB that was not connected stays not connected
FailedConnectKeepsPool ==
    (db.op = "Connect" /\ db.err # NilErr) => db.pool = db.found

\* C29: a failed Connect leaves a not-connected DB not connected, and Ping on a
\* not-connected DB returns the connection-kind DBError "not connected" and does
\* not dereference the nil pool, for the Postgres DB and for the MySQL DB.
C29_PingNotConnectedIsAnError ==
    /\ (db.op = "Connect" /\ db.err # NilErr /\ db.found = "nil") => db.pool = "nil"
    /\ (db.op = "Ping" /\ db.found = "nil") => (~db.panicked /\ db.err = errNotConnected)

(***************************************************************************)
(* The logger.  New parses the configured level and hands it to            *)
(* zerolog.SetGlobalLevel, which sets one level for the whole process; the *)
(* zerolog.Logger it builds with zerolog.New keeps zerolog's lowest level  *)
(* as its own.  zerolog writes an event when its level is not below the    *)
(* logger's own level and not below the global level.                      *)
(***************************************************************************)
TraceLevel == 0 - 1

DebugLevel == 0

WarnLevel == 2

ErrorLevel == 3

FatalLevel == 4

\* how many loggers are created
MaxLoggers == 3

\* parseLevel
parseLevel(level) ==
    CASE level = "debug" -> DebugLevel
      [] level = "info" -> InfoLevel
      [] level = "warn" -> WarnLevel
      [] level = "error" -> ErrorLevel
      [] level = "fatal" -> FatalLevel
      [] OTHER -> InfoLevel

\* New: the global level is set to the parsed level; the logger is zerolog.New(...)
loggerNew(level, global) ==
    [logger |-> [level |-> parseLevel(level), zlevel |-> TraceLevel],
     global |-> parseLevel(level)]

\* DefaultConfig().Level, which New(nil) uses
DefaultLevel == "info"

\* zerolog's test before an event is written
should(l, level, global) == level >= l.zlevel /\ level >= global

\* the levels a configuration may name, one of them unknown to parseLevel
ConfigLevels == {"debug", "info", "warn", "error", "verbose"}

\* Debug, Info, Warn, Error
MessageLevels == {DebugLevel, InfoLevel, WarnLevel, ErrorLevel}

\* the package's init has run: global = New(nil)
LInit ==
    /\ globalLevel = loggerNew(DefaultLevel, InfoLevel).global
    /\ loggers = << loggerNew(DefaultLevel, InfoLevel).logger >>
    /\ logged = NoLog
    /\ db = NoDB /\ cfg = NoConfig
    /\ BuilderIdle /\ MapIdle /\ FacadeIdle /\ HistoryIdle /\ SharingIdle

\* New(&Config{Level: level})
LoggerNew(level) ==
    /\ Len(loggers) < MaxLoggers
    /\ loggers' = Append(loggers, loggerNew(level, globalLevel).logger)
    /\ globalLevel' = loggerNew(level, globalLevel).global
    /\ UNCHANGED <<logged, bvars, mvars, fvars, hvars, cvars, db, cfg>>

\* FromContext of a context that carries no logger: zerolog.Ctx answers with its
\* disabled logger and FromContext returns New(nil)
FromContextBare ==
    /\ Len(loggers) < MaxLoggers
    /\ loggers' = Append(loggers, loggerNew(DefaultLevel, globalLevel).logger)
    /\ globalLevel' = loggerNew(DefaultLevel, globalLevel).global
    /\ UNCHANGED <<logged, bvars, mvars, fvars, hvars, cvars, db, cfg>>

\* FromContext of a context made by WithContext of the i-th logger: a Logger
\* around a copy of that zerolog.Logger
FromContextOf(i) ==
    /\ Len(loggers) < MaxLoggers
    /\ loggers' = Append(loggers, loggers[i])
    /\ UNCHANGED <<globalLevel, logged, bvars, mvars, fvars, hvars, cvars, db, cfg>>

\* Debug, Info, Warn or Error of the i-th logger
Log(i, level) ==
    /\ logged' = [logger |-> i, level |-> level, global |-> globalLevel,
                  written |-> should(loggers[i], level, globalLevel)]
    /\ UNCHANGED <<globalLevel, loggers, bvars, mvars, fvars, hvars, cvars, db, cfg>>

LNext ==
    \/ \E level \in ConfigLevels : LoggerNew(level)
    \/ FromContextBare
    \/ \E i \in 1..Len(loggers) : FromContextOf(i)
    \/ \E i \in 1..Len(loggers), level \in MessageLevels : Log(i, level)

SpecLogger == LInit /\ [][LNext]_vars

\* what decides whether a message is written: the global level at that moment,
\* which is the level of the last New
GlobalLevelDecides ==
    logged.logger # 0 => (logged.written <=> logged.level >= logged.global)

\* C24: a Logger writes a message exactly when the message's level is at or
\* above the level the Logger was created with, whatever New and FromContext
\* calls created other loggers with other levels before the message.
C24_WritesAtOrAboveOwnLevel ==
    logged.logger # 0 =>
        (logged.written <=> logged.level >= loggers[logged.logger].level)

(***************************************************************************)
(* mysql.New under its connect timeout.  Time is counted in ticks from the *)
(* call of New: the configuration gives the timeout, the backend needs     *)
(* some ticks to answer the ping, with success or with a failure.          *)
(***************************************************************************)
\* the longest connect timeout tried
MaxTimeout == 2

\* a zero timeout taken for "no timeout"
WithTimeout_ZeroMeansNone(parent, d) ==
    [err |-> parent, bounded |-> d > 0, deadline |-> d]

\* context.WithTimeout(parent, d): done from the start with the parent's error when
\* the parent is done, with DeadlineExceeded when d is not positive; otherwise
\* live until tick d
WithTimeout(parent, d) ==
    [err |-> IF parent # "live" THEN parent
             ELSE IF d <= 0 THEN "DeadlineExceeded" ELSE "live",
     bounded |-> TRUE,
     deadline |-> d]

\* db.PingContext(pingCtx): a context that is done is answered with its error
\* before anything is sent; an answer that comes before the deadline is returned;
\* the deadline passing first ends the ping with DeadlineExceeded, bare or
\* wrapped; both at the same tick, either may win
PingUnder(pc, takes, answer) ==
    IF pc.err # "live" THEN { <<ctxNode(pc.err)>> }
    ELSE IF ~pc.bounded \/ takes < pc.deadline THEN {answer}
    ELSE IF takes > pc.deadline THEN CtxErrs("DeadlineExceeded")
    ELSE {answer} \cup CtxErrs("DeadlineExceeded")

TInit ==
    /\ backend = "mysql"
    /\ cfg \in [connectTimeout : 0..MaxTimeout]
    /\ ctx = "live" /\ cur = NoCursor /\ row = NoRow /\ fret = NoFRet
    /\ catalog = <<>> /\ pool = NoPool
    /\ db = NoDB
    /\ BuilderIdle /\ MapIdle /\ HistoryIdle /\ SharingIdle /\ LoggerIdle

\* mysql.New(ctx, cfg) by a caller that holds no Driver
NewUnderTimeout ==
    /\ ~HasDriver
    /\ \E openErr \in {NilErr, <<OtherErr>>},
          takes \in 1..(MaxTimeout + 1),
          answer \in {NilErr} \cup EnvErrs("mysql") :
       \E pingErr \in PingUnder(WithTimeout(ctx, cfg.connectTimeout), takes, answer) :
         LET r == mysqlNew(openErr, pingErr)
         IN  /\ fret' = [FRet("New", ctx, r.err) EXCEPT
                            !.flag = r.driver, !.calls = r.calls,
                            !.arg = [takes |-> takes, answer |-> answer]]
             /\ pool' = [state |-> r.pool, cursors |-> 0]
    /\ cur' = NoCursor /\ row' = NoRow
    /\ UNCHANGED <<backend, ctx, catalog, bvars, mvars, xvars>>

TNext ==
    \/ NewUnderTimeout
    \/ DriverClose
    \/ \E c \in {"DeadlineExceeded", "Canceled"} : CtxDone(c)
    \/ NewContext

SpecTimeout == TInit /\ [][TNext]_vars

\* New got as far as the ping
Pinged == fret.op = "New" /\ \E i \in 1..Len(fret.calls) : fret.calls[i] = "Ping"

\* C30: when the ping of mysql.New has not completed by the deadline that
\* Config.ConnectTimeout sets -- a zero ConnectTimeout included, whose context is
\* expired from the start -- New closes the pool and returns no Driver and a
\* Timeout-kind error, whether the backend would have answered with success or
\* with a failure.
C30_PingBoundedByConnectTimeout ==
    (Pinged /\ (cfg.connectTimeout = 0 \/ fret.arg.takes > cfg.connectTimeout)) =>
        /\ ~fret.flag
        /\ errsKindOf(fret.err) = "Timeout"
        /\ pool.state = "closed"
        /\ fret.calls = <<"Open", "Ping", "Close">>

C30_Witness ==
    /\ Pinged
    /\ cfg.connectTimeout = 0 /\ fret.ctx = "live"
    /\ fret.arg.answer = NilErr
    /\ ~fret.flag /\ pool.state = "closed"
    /\ errsKindOf(fret.err) = "Timeout"

(***************************************************************************)
(* One Driver shared by several callers.  A facade call is three steps of  *)
(* its caller: the method starts and reads the Driver's pool field, the    *)
(* pool answers, the method returns what it made of the answer it holds in *)
(* its own locals.  The pool serializes its checkouts: every answer is     *)
(* given in one step and carries the number of the checkout.  The steps of *)
(* different callers interleave freely.                                    *)
(***************************************************************************)
\* how many callers share the Driver
MaxCallers == 2

\* how many calls the pool answers
MaxServes == 3

FacadeOps == {"Ping", "Query", "QueryRow", "ListTables", "TableExists", "InspectSchema"}

\* the Driver New returned: its only field holds the pool
SharedDriver == [pool |-> "set"]

NoAnswer == [token |-> 0, err |-> NilErr]

IdleCaller == [pc |-> "idle", op |-> "none", seen |-> "nil", got |-> NoAnswer, result |-> NoAnswer]

\* the receiver after a step of a facade method: no method assigns to a field
driverAfter(d, op) == d

\* the answer the pool gave most recently to any caller
LatestAnswer(calls) ==
    LET answered == {t \in 1..Len(calls) : calls[t].got.token > 0}
    IN  IF answered = {} THEN NoAnswer
        ELSE calls[CHOOSE t \in answered : \A u \in answered : calls[u].got.token <= calls[t].got.token].got

\* a method that returns what the pool answered last, whoever asked
facadeReturn_LatestAnswer(be, op, own, latest) ==
    IF op = "QueryRow" THEN [token |-> latest.token, err |-> NilErr]
    ELSE IF latest.err # NilErr THEN [token |-> 0, err |-> mapError(be, latest.err)]
    ELSE [token |-> latest.token, err |-> NilErr]

\* what a facade method returns from the answer in its locals: the error through
\* mapError, else the cursor or the data read from it; QueryRow returns the row,
\* whose error shows at Scan
facadeReturn(be, op, own, latest) ==
    IF op = "QueryRow" THEN [token |-> own.token, err |-> NilErr]
    ELSE IF own.err # NilErr THEN [token |-> 0, err |-> mapError(be, own.err)]
    ELSE [token |-> own.token, err |-> NilErr]

SInit ==
    /\ backend \in Backends
    /\ drv = SharedDriver
    /\ thr = [t \in 1..MaxCallers |-> IdleCaller]
    /\ pool = [state |-> "open", cursors |-> 0]
    /\ ctx = "live" /\ cur = NoCursor /\ row = NoRow /\ fret = NoFRet /\ catalog = <<>>
    /\ db = NoDB /\ cfg = NoConfig
    /\ BuilderIdle /\ MapIdle /\ HistoryIdle /\ LoggerIdle

\* caller t calls a facade method; the method reads d.pool
CallerCalls(t, op) ==
    /\ thr[t].pc \in {"idle", "returned"}
    /\ pool.cursors + Cardinality({u \in 1..Len(thr) : thr[u].pc = "called"}) < MaxServes
    /\ thr' = [thr EXCEPT ![t] = [pc |-> "called", op |-> op, seen |-> drv.pool,
                                  got |-> NoAnswer, result |-> NoAnswer]]
    /\ UNCHANGED <<drv, backend, ctx, cur, row, fret, catalog, pool, bvars, mvars, hvars,
                   lvars, db, cfg>>

\* the pool answers the call of caller t: a checkout, and the backend's success or failure
PoolAnswers(t, e) ==
    /\ thr[t].pc = "called"
    /\ pool' = [pool EXCEPT !.cursors = @ + 1]
    /\ thr' = [thr EXCEPT ![t].pc = "answered",
                          ![t].got = [token |-> pool.cursors + 1, err |-> e]]
    /\ drv' = driverAfter(drv, thr[t].op)
    /\ UNCHANGED <<backend, ctx, cur, row, fret, catalog, bvars, mvars, hvars, lvars, db, cfg>>

\* the method of caller t returns
CallerReturns(t) ==
    /\ thr[t].pc = "answered"
    /\ thr' = [thr EXCEPT ![t].pc = "returned",
                          ![t].result = facadeReturn(backend, thr[t].op, thr[t].got,
                                                     LatestAnswer(thr))]
    /\ drv' = driverAfter(drv, thr[t].op)
    /\ UNCHANGED <<backend, ctx, cur, row, fret, catalog, pool, bvars, mvars, hvars, lvars,
                   db, cfg>>

SNext ==
    \/ \E t \in 1..MaxCallers, op \in FacadeOps : CallerCalls(t, op)
    \/ \E t \in 1..MaxCallers, e \in {NilErr, <<OtherErr>>} : PoolAnswers(t, e)
    \/ \E t \in 1..MaxCallers : CallerReturns(t)

SpecSharing == SInit /\ [][SNext]_vars

\* what the call of caller t returns when it runs alone at the place its checkout
\* has in the pool's order
AloneAt(t) ==
    IF thr[t].op = "QueryRow" THEN [token |-> thr[t].got.token, err |-> NilErr]
    ELSE IF thr[t].got.err # NilErr
         THEN [token |-> 0, err |-> mapError(backend, thr[t].got.err)]
    ELSE [token |-> thr[t].got.token, err |-> NilErr]

\* C23: no facade method writes a field of the Driver, every method works on the
\* pool New stored, and under every interleaving of several callers' calls each
\* call returns what it would return alone at its place in the order of the
\* pool's checkouts; no two callers hold the same cursor, and no caller is
\* handed the cursor or the error the pool produced for another.
C23_CallersDoNotInterfere ==
    /\ drv = SharedDriver
    /\ \A t \in 1..Len(thr) :
           /\ thr[t].pc # "idle" => thr[t].seen = SharedDriver.pool
           /\ thr[t].pc = "returned" => thr[t].result = AloneAt(t)
    /\ \A t, u \in 1..Len(thr) :
           (t # u /\ thr[t].got.token > 0 /\ thr[u].got.token > 0) =>
               /\ thr[t].got.token # thr[u].got.token
               /\ (thr[t].pc = "returned" /\ thr[t].result.token > 0) =>
                      thr[t].result.token # thr[u].got.token

\* two calls in flight together: caller 2 was answered first, with success, and has
\* not returned; caller 1 was answered after it, with a failure, and has returned
C23_Witness ==
    /\ Len(thr) >= 2
    /\ thr[1].pc = "returned" /\ thr[2].pc = "answered"
    /\ thr[1].op = "Query" /\ thr[2].op = "ListTables"
    /\ thr[1].got.token = 2 /\ thr[2].got.token = 1
    /\ thr[1].got.err # NilErr /\ thr[2].got.err = NilErr
    /\ thr[1].result.err # NilErr /\ thr[1].result.token = 0

====
